---- MODULE Spec2Model ----
(***************************************************************************)
(* Behaviour arbitration engine and timer-path proactive scheduler of the  *)
(* Sidekick main process (src/unnamed/part_005, lines 1-817).              *)
(*                                                                         *)
(* Time is the value of Date.now() in milliseconds.  Every IPC handler,    *)
(* timer callback and promise continuation runs to completion on the one   *)
(* event loop, so each is one action; the only suspension points are the   *)
(* foreground-app lookup awaited by runModeLoop and the network reply      *)
(* awaited by ai:chat.                                                     *)
(***************************************************************************)
EXTENDS Integers, Sequences, FiniteSets, TLC

VARIABLES
    now,                    \* Date.now()
    modeState,              \* the modeState object
    activeAppCheckInFlight, \* refreshActiveApp's guard
    lookupsInFlight,        \* getActiveAppName calls that have not returned
    ret,                    \* <<v>>: the last handler returned v to its invoke caller
    mainWindow,             \* "visible", "hidden" or "null" (closed)
    settings,               \* settings.json: the persisted primaryMode
    pendingProactive,       \* pending setTimeout handles armed by scheduleProactiveCheck
    proactiveTimer,         \* the proactiveTimer variable: a handle id, or NoTimer
    pendingTyping,          \* pending setTimeout handles armed by noteUserTyping
    typingTimer,            \* the typingTimer variable: a handle id, or NoTimer
    lastProactiveAt,
    lastProactiveMessage,   \* index into PROACTIVE_TEMPLATES, NoTemplate for null
    lastUserActivityAt,
    isUserTyping,
    pendingScreenshot,      \* the captured screenshot held, NoScreenshot for null
    capturing,              \* screen:look requests awaiting captureOneShotScreenshot
    captures,               \* how many captures screen:look has started
    attached,               \* the screenshots ai:chat has put into a request, in order
    history,                \* chat_history.json: a sequence of message kinds
    chatInFlight,           \* ai:chat requests awaiting the network reply
    lastOp,                 \* the handler that ran last
    sent,                   \* what that handler sent to the renderer
    idleProbe,              \* the idle sample canSendProactive read in that handler
    emitted,                \* Date.now() of every proactive message sent so far
    lastScheduled,          \* deadline set by the latest scheduleProactiveCheck call
    prevPair,               \* the stored (mode, reason) before that handler ran
    proactivityJson,        \* main.ts: proactivity.json, <<>> when missing or unparsable
    memoryJson,             \* main.ts: the facts of memory.json
    settingsJson,           \* main.ts: conversationDepth of settings.json
    chatHistoryJson,        \* main.ts: chat_history.json, the role and kind of each entry
    pendingChats,           \* main.ts: ai:chat requests awaiting the network reply
    initiated,              \* main.ts: the messages maybeInitiate has returned, in order
    attempt                 \* main.ts: trigger and chance draw of the latest maybeInitiate

vars == <<lastOp, now, modeState, activeAppCheckInFlight, lookupsInFlight, ret, mainWindow,
          settings,
          pendingProactive, proactiveTimer, pendingTyping, typingTimer,
          lastProactiveAt, lastProactiveMessage, lastUserActivityAt, isUserTyping,
          pendingScreenshot, capturing, captures, attached, history, chatInFlight,
          sent, idleProbe,
          emitted, lastScheduled, prevPair, proactivityJson, memoryJson, settingsJson,
          chatHistoryJson, pendingChats, initiated, attempt>>

----------------------------------------------------------------------------
(* Program constants *)

IDLE_THRESHOLD_MS == 60000
SERIOUS_AFTER_SEND_MS == 120000
PROACTIVE_IDLE_THRESHOLD_MS == 180000
PROACTIVE_RATE_LIMIT_MS == 3000000
PROACTIVE_RETRY_MS == 120000
PROACTIVE_TYPING_GRACE_MS == 3000
NumTemplates == 5

PrimaryModes == {"serious", "active", "idle"}
DEFAULT_PRIMARY_MODE == "active"

(* Model bounds *)

\* Date.now() when the application becomes ready; any clock value further
\* from 0 than the rate-limit window behaves the same.
StartNow == 2 * PROACTIVE_RATE_LIMIT_MS
\* The instants at which handlers run, as offsets from StartNow.  The mode
\* engine is followed across the recent-send window, the scheduler across
\* one rate-limit window.
ModeClock ==
    {StartNow + o : o \in {0, SERIOUS_AFTER_SEND_MS - IDLE_THRESHOLD_MS,
                           SERIOUS_AFTER_SEND_MS}}
SchedClock ==
    {StartNow + o : o \in {0, PROACTIVE_IDLE_THRESHOLD_MS,
                           2 * PROACTIVE_IDLE_THRESHOLD_MS,
                           PROACTIVE_RATE_LIMIT_MS,
                           PROACTIVE_RATE_LIMIT_MS + PROACTIVE_IDLE_THRESHOLD_MS,
                           PROACTIVE_RATE_LIMIT_MS + 2 * PROACTIVE_IDLE_THRESHOLD_MS}}
\* powerMonitor.getSystemIdleTime() * 1000: whole seconds around both thresholds.
IdleSamples == {IDLE_THRESHOLD_MS - 1000, IDLE_THRESHOLD_MS, PROACTIVE_IDLE_THRESHOLD_MS}
MaxTimerIds == 4
MaxTypingSeconds == 6
TimerIds == 1..MaxTimerIds
NoScreenshot == 0
NoTimer == 0
NoTemplate == 0

----------------------------------------------------------------------------
(* Active app detection *)

NoApp == "<null>"
\* Process names the lookup can return.
AppNames == {"Code.exe", "Spotify", "Finder"}
LookupResults == AppNames \cup {NoApp}

normalizeProcessName(name) ==
    CASE name = NoApp -> NoApp
      [] name = "Code.exe" -> "code"
      [] name = "Spotify" -> "spotify"
      [] name = "Finder" -> "finder"

\* name.includes(hint) for some hint of the list
matchesAnyCasual(name) == name \in {"spotify"}
matchesAnyWork(name) == name \in {"code"}

classifyApp(processName) ==
    IF processName = NoApp THEN "unknown"
    ELSE IF matchesAnyCasual(processName) THEN "casual"
    ELSE IF matchesAnyWork(processName) THEN "work"
    ELSE "unknown"

----------------------------------------------------------------------------
(* Mode engine *)

Result(m, r) == [mode |-> m, reason |-> r]

\* The stored (mode, reason)
Pair(ms) == <<ms.effectiveMode, ms.effectiveReason>>

\* The idle sample taken at the top of computeEffectiveMode.
sampleIdle(ms, idleMs) ==
    [ms EXCEPT !.idleMs = idleMs, !.isIdle = (idleMs >= IDLE_THRESHOLD_MS)]

\* Mutant: the idle check moved ahead of the app category checks.
computeEffectiveMode_idleFirst(ms, t) ==
    IF ms.primaryMode = "idle" THEN Result("idle", "primary setting: Quiet")
    ELSE IF ms.primaryMode = "serious" THEN Result("serious", "primary setting: Focus")
    ELSE IF ms.focusLocked THEN Result("serious", "focus lock enabled")
    ELSE IF ms.lastUserSendAt > 0 /\ t - ms.lastUserSendAt < SERIOUS_AFTER_SEND_MS
         THEN Result("serious", "recent activity")
    ELSE IF ms.isIdle THEN Result("idle", "system inactive")
    ELSE IF ms.appCategory = "work" THEN Result("serious", "work app detected")
    ELSE IF ms.appCategory = "casual" THEN Result("active", "casual app detected")
    ELSE Result("active", "primary setting: Hang out")

\* Mutant: hysteresis, a stored Quiet is kept until the system is active again.
computeEffectiveMode_sticky(ms, t) ==
    IF ms.primaryMode = "idle" THEN Result("idle", "primary setting: Quiet")
    ELSE IF ms.primaryMode = "serious" THEN Result("serious", "primary setting: Focus")
    ELSE IF ms.focusLocked THEN Result("serious", "focus lock enabled")
    ELSE IF ms.lastUserSendAt > 0 /\ t - ms.lastUserSendAt < SERIOUS_AFTER_SEND_MS
         THEN Result("serious", "recent activity")
    ELSE IF ms.appCategory = "work" THEN Result("serious", "work app detected")
    ELSE IF ms.appCategory = "casual" /\ ms.effectiveMode # "idle"
         THEN Result("active", "casual app detected")
    ELSE IF ms.isIdle \/ ms.appCategory = "casual" THEN Result("idle", "system inactive")
    ELSE Result("active", "primary setting: Hang out")

\* Mutant: the "system inactive" rule is missing.
computeEffectiveMode_noIdleRule(ms, t) ==
    IF ms.primaryMode = "idle" THEN Result("idle", "primary setting: Quiet")
    ELSE IF ms.primaryMode = "serious" THEN Result("serious", "primary setting: Focus")
    ELSE IF ms.focusLocked THEN Result("serious", "focus lock enabled")
    ELSE IF ms.lastUserSendAt > 0 /\ t - ms.lastUserSendAt < SERIOUS_AFTER_SEND_MS
         THEN Result("serious", "recent activity")
    ELSE IF ms.appCategory = "work" THEN Result("serious", "work app detected")
    ELSE IF ms.appCategory = "casual" THEN Result("active", "casual app detected")
    ELSE Result("active", "primary setting: Hang out")

computeEffectiveMode(ms, t) ==
    IF ms.primaryMode = "idle" THEN Result("idle", "primary setting: Quiet")
    ELSE IF ms.primaryMode = "serious" THEN Result("serious", "primary setting: Focus")
    ELSE IF ms.focusLocked THEN Result("serious", "focus lock enabled")
    ELSE IF ms.lastUserSendAt > 0 /\ t - ms.lastUserSendAt < SERIOUS_AFTER_SEND_MS
         THEN Result("serious", "recent activity")
    ELSE IF ms.appCategory = "work" THEN Result("serious", "work app detected")
    ELSE IF ms.appCategory = "casual" THEN Result("active", "casual app detected")
    ELSE IF ms.isIdle THEN Result("idle", "system inactive")
    ELSE Result("active", "primary setting: Hang out")

\* "const next = computeEffectiveMode(Date.now()); modeState.effectiveMode =
\* next.mode; modeState.effectiveReason = next.reason", as every handler does.
recompute(ms, idleMs, t) ==
    LET sampled == sampleIdle(ms, idleMs)
        next == computeEffectiveMode(sampled, t)
    IN [sampled EXCEPT !.effectiveMode = next.mode, !.effectiveReason = next.reason]

ModeUpdate(ms) == [channel |-> "mode:update", payload |-> ms]
ProactiveMessage(template) ==
    [channel |-> "proactive:message",
     payload |-> [role |-> "assistant", content |-> template, meta |-> "proactive"]]

\* What broadcastMode sends once the handler has left modeState as ms.
broadcastMode(ms) ==
    IF mainWindow = "null" THEN <<>> ELSE <<ModeUpdate(ms)>>

----------------------------------------------------------------------------
(* Proactive presence: timers *)

Max(a, b) == IF a >= b THEN a ELSE b

\* setTimeout returns a handle no pending timer has.
FreshId(pending) ==
    CHOOSE i \in TimerIds :
        /\ \A x \in pending : x.id # i
        /\ \A j \in TimerIds : j < i => \E x \in pending : x.id = j

\* The proactive-check timer state the scheduling functions work on.
CurTimer ==
    [pending |-> pendingProactive, handle |-> proactiveTimer, scheduled |-> lastScheduled]

SetTimer(p) ==
    /\ pendingProactive' = p.pending
    /\ proactiveTimer' = p.handle
    /\ lastScheduled' = p.scheduled

clearProactiveTimer(p) ==
    IF p.handle = NoTimer THEN p
    ELSE [p EXCEPT !.pending = {x \in p.pending : x.id # p.handle}, !.handle = NoTimer]

scheduleProactiveCheck(p, delayMs, t) ==
    LET c == clearProactiveTimer(p)
        id == FreshId(c.pending)
    IN [pending |-> c.pending \cup {[id |-> id, at |-> t + delayMs]},
        handle |-> id,
        scheduled |-> t + delayMs]

\* Mutant: a new check is armed without cancelling the pending one.
noteUserActivity_leak ==
    /\ lastUserActivityAt' = now
    /\ LET id == FreshId(pendingProactive)
           at == now + PROACTIVE_IDLE_THRESHOLD_MS
       IN SetTimer([pending |-> pendingProactive \cup {[id |-> id, at |-> at]},
                    handle |-> id,
                    scheduled |-> at])

noteUserActivity ==
    /\ lastUserActivityAt' = now
    /\ SetTimer(scheduleProactiveCheck(clearProactiveTimer(CurTimer),
                                       PROACTIVE_IDLE_THRESHOLD_MS, now))

\* Mutant: typing only sets the flag and its grace timer.
noteUserTyping_flagOnly ==
    /\ isUserTyping' = TRUE
    /\ LET cleared == IF typingTimer # NoTimer
                      THEN {x \in pendingTyping : x.id # typingTimer}
                      ELSE pendingTyping
           id == FreshId(cleared)
       IN /\ pendingTyping' = cleared \cup {[id |-> id, at |-> now + PROACTIVE_TYPING_GRACE_MS]}
          /\ typingTimer' = id
    /\ UNCHANGED <<lastUserActivityAt, pendingProactive, proactiveTimer, lastScheduled>>

\* Mutant: a typing report arms a new grace timer and leaves the old one.
noteUserTyping_noCancel ==
    /\ isUserTyping' = TRUE
    /\ LET id == FreshId(pendingTyping)
       IN /\ pendingTyping' = pendingTyping \cup {[id |-> id, at |-> now + PROACTIVE_TYPING_GRACE_MS]}
          /\ typingTimer' = id
    /\ noteUserActivity

noteUserTyping ==
    /\ isUserTyping' = TRUE
    /\ LET cleared == IF typingTimer # NoTimer
                      THEN {x \in pendingTyping : x.id # typingTimer}
                      ELSE pendingTyping
           id == FreshId(cleared)
       IN /\ pendingTyping' = cleared \cup {[id |-> id, at |-> now + PROACTIVE_TYPING_GRACE_MS]}
          /\ typingTimer' = id
    /\ noteUserActivity

\* The templates pickProactiveTemplate draws from.
templateOptions ==
    LET options == {c \in 1..NumTemplates : c # lastProactiveMessage}
    IN IF options # {} THEN options ELSE 1..NumTemplates

\* The checks canSendProactive makes before it samples the idle time.
canSendBeforeIdle ==
    /\ mainWindow = "visible"
    /\ modeState.primaryMode = "active"
    /\ modeState.effectiveMode = "active"
    /\ ~modeState.focusLocked
    /\ ~isUserTyping

\* Mutant: the stored effective mode is not consulted.
canSendProactive_noEffectiveMode(t, systemIdleMs) ==
    /\ mainWindow = "visible"
    /\ modeState.primaryMode = "active"
    /\ ~modeState.focusLocked
    /\ ~isUserTyping
    /\ ~(systemIdleMs < PROACTIVE_IDLE_THRESHOLD_MS)
    /\ ~(t - lastUserActivityAt < PROACTIVE_IDLE_THRESHOLD_MS)
    /\ ~(t - lastProactiveAt < PROACTIVE_RATE_LIMIT_MS)

\* Mutant: the rate-limit check is missing.
canSendProactive_noRateLimit(t, systemIdleMs) ==
    /\ canSendBeforeIdle
    /\ ~(systemIdleMs < PROACTIVE_IDLE_THRESHOLD_MS)
    /\ ~(t - lastUserActivityAt < PROACTIVE_IDLE_THRESHOLD_MS)

canSendProactive(t, systemIdleMs) ==
    /\ canSendBeforeIdle
    /\ ~(systemIdleMs < PROACTIVE_IDLE_THRESHOLD_MS)
    /\ ~(t - lastUserActivityAt < PROACTIVE_IDLE_THRESHOLD_MS)
    /\ ~(t - lastProactiveAt < PROACTIVE_RATE_LIMIT_MS)

\* Mutant: an ineligible fire does not arm another check.
attemptProactiveMessage_noRetry(p, systemIdleMs) ==
    /\ idleProbe' = IF canSendBeforeIdle THEN {systemIdleMs} ELSE {}
    /\ IF ~canSendProactive(now, systemIdleMs)
       THEN /\ SetTimer(p)
            /\ sent' = <<>>
            /\ UNCHANGED <<lastProactiveMessage, history, lastProactiveAt, emitted>>
       ELSE \E content \in templateOptions :
               /\ lastProactiveMessage' = content
               /\ history' = Append(history, "proactive")
               /\ sent' = <<ProactiveMessage(content)>>
               /\ emitted' = Append(emitted, now)
               /\ lastProactiveAt' = now
               /\ SetTimer(scheduleProactiveCheck(p, PROACTIVE_RATE_LIMIT_MS, now))

\* Mutant: an ineligible fire always retries after the short interval.
attemptProactiveMessage_shortRetry(p, systemIdleMs) ==
    /\ idleProbe' = IF canSendBeforeIdle THEN {systemIdleMs} ELSE {}
    /\ IF ~canSendProactive(now, systemIdleMs)
       THEN /\ SetTimer(scheduleProactiveCheck(p, PROACTIVE_RETRY_MS, now))
            /\ sent' = <<>>
            /\ UNCHANGED <<lastProactiveMessage, history, lastProactiveAt, emitted>>
       ELSE \E content \in templateOptions :
               /\ lastProactiveMessage' = content
               /\ history' = Append(history, "proactive")
               /\ sent' = <<ProactiveMessage(content)>>
               /\ emitted' = Append(emitted, now)
               /\ lastProactiveAt' = now
               /\ SetTimer(scheduleProactiveCheck(p, PROACTIVE_RATE_LIMIT_MS, now))

\* attemptProactiveMessage, run by the timer callback once it has set
\* proactiveTimer = null (p is the timer state at that point).
attemptProactiveMessage(p, systemIdleMs) ==
    /\ idleProbe' = IF canSendBeforeIdle THEN {systemIdleMs} ELSE {}
    /\ IF ~canSendProactive(now, systemIdleMs)
       THEN LET rateLimitRemaining == Max(0, PROACTIVE_RATE_LIMIT_MS - (now - lastProactiveAt))
            IN /\ SetTimer(scheduleProactiveCheck(p, Max(PROACTIVE_RETRY_MS, rateLimitRemaining), now))
               /\ sent' = <<>>
               /\ UNCHANGED <<lastProactiveMessage, history, lastProactiveAt, emitted>>
       ELSE \E content \in templateOptions :
               /\ lastProactiveMessage' = content
               /\ history' = Append(history, "proactive")
               /\ sent' = <<ProactiveMessage(content)>>
               /\ emitted' = Append(emitted, now)
               /\ lastProactiveAt' = now
               /\ SetTimer(scheduleProactiveCheck(p, PROACTIVE_RATE_LIMIT_MS, now))

----------------------------------------------------------------------------
(* Handlers *)

modeVars == <<modeState, activeAppCheckInFlight, lookupsInFlight, settings>>
proactiveTimerVars == <<pendingProactive, proactiveTimer, lastScheduled>>
typingVars == <<pendingTyping, typingTimer, isUserTyping>>
proactiveVars == <<lastProactiveAt, lastProactiveMessage, emitted>>
screenVars == <<pendingScreenshot, capturing, captures, attached>>
chatVars == <<screenVars, history, chatInFlight>>

isPrimaryMode(value) == value \in PrimaryModes

\* Mutant: the value is validated only after the broadcast and the activity
\* note.
SetPrimary_lateCheck(nextMode, idleMs) ==
    /\ idleProbe' = {}
    /\ IF ~isPrimaryMode(nextMode)
       THEN /\ lastOp' = "setPrimaryRejected"
            /\ ret' = <<modeState>>
            /\ sent' = broadcastMode(modeState)
            /\ noteUserActivity
            /\ UNCHANGED <<now, mainWindow, modeVars, typingVars, proactiveVars, chatVars>>
       ELSE /\ lastOp' = "setPrimary"
            /\ modeState' = recompute([modeState EXCEPT !.primaryMode = nextMode], idleMs, now)
            /\ settings' = nextMode
            /\ sent' = broadcastMode(modeState')
            /\ ret' = <<modeState'>>
            /\ noteUserActivity
            /\ UNCHANGED <<now, mainWindow, activeAppCheckInFlight, lookupsInFlight, typingVars,
                           proactiveVars, chatVars>>

\* ipcMain.handle("mode:setPrimary")
SetPrimary(nextMode, idleMs) ==
    /\ idleProbe' = {}
    /\ IF ~isPrimaryMode(nextMode)
       THEN /\ lastOp' = "setPrimaryRejected"
            /\ ret' = <<modeState>>
            /\ sent' = <<>>
            /\ UNCHANGED <<now, mainWindow, modeVars, proactiveTimerVars, typingVars,
                           proactiveVars, chatVars, lastUserActivityAt>>
       ELSE /\ lastOp' = "setPrimary"
            /\ modeState' = recompute([modeState EXCEPT !.primaryMode = nextMode], idleMs, now)
            /\ settings' = nextMode
            /\ sent' = broadcastMode(modeState')
            /\ ret' = <<modeState'>>
            /\ noteUserActivity
            /\ UNCHANGED <<now, mainWindow, activeAppCheckInFlight, lookupsInFlight, typingVars,
                           proactiveVars, chatVars>>

\* ipcMain.handle("mode:toggleFocusLock")
ToggleFocusLock(idleMs) ==
    /\ lastOp' = "toggleFocusLock"
    /\ idleProbe' = {}
    /\ modeState' = recompute([modeState EXCEPT !.focusLocked = ~modeState.focusLocked],
                              idleMs, now)
    /\ sent' = broadcastMode(modeState')
    /\ ret' = <<modeState'>>
    /\ noteUserActivity
    /\ UNCHANGED <<now, mainWindow, activeAppCheckInFlight, lookupsInFlight, settings, typingVars,
                   proactiveVars, chatVars>>

\* ipcMain.handle("mode:userSent")
UserSent(idleMs) ==
    /\ lastOp' = "userSent"
    /\ idleProbe' = {}
    /\ modeState' = recompute([modeState EXCEPT !.lastUserSendAt = now], idleMs, now)
    /\ sent' = broadcastMode(modeState')
    /\ ret' = <<modeState'>>
    /\ noteUserActivity
    /\ UNCHANGED <<now, mainWindow, activeAppCheckInFlight, lookupsInFlight, settings, typingVars,
                   proactiveVars, chatVars>>

\* ipcMain.on("proactive:activity")
ProactiveActivity ==
    /\ lastOp' = "activity"
    /\ ret' = <<>>
    /\ idleProbe' = {}
    /\ sent' = <<>>
    /\ noteUserActivity
    /\ UNCHANGED <<now, mainWindow, modeVars, typingVars, proactiveVars, chatVars>>

\* mainWindow.on("focus")
WindowFocus ==
    /\ mainWindow = "visible"
    /\ lastOp' = "windowFocus"
    /\ ret' = <<>>
    /\ idleProbe' = {}
    /\ sent' = <<>>
    /\ noteUserActivity
    /\ UNCHANGED <<now, mainWindow, modeVars, typingVars, proactiveVars, chatVars>>

\* ipcMain.on("proactive:typing")
ProactiveTyping ==
    /\ lastOp' = "typing"
    /\ ret' = <<>>
    /\ idleProbe' = {}
    /\ sent' = <<>>
    /\ noteUserTyping
    /\ UNCHANGED <<now, mainWindow, modeVars, proactiveVars, chatVars>>

\* The callback noteUserTyping hands to setTimeout.
TypingTimerFire(tm) ==
    /\ tm \in pendingTyping
    /\ now >= tm.at
    /\ lastOp' = "typingTimer"
    /\ ret' = <<>>
    /\ idleProbe' = {}
    /\ sent' = <<>>
    /\ pendingTyping' = pendingTyping \ {tm}
    /\ isUserTyping' = FALSE
    /\ UNCHANGED <<now, mainWindow, modeVars, proactiveTimerVars, typingTimer,
                   proactiveVars, chatVars, lastUserActivityAt>>

\* The callback scheduleProactiveCheck hands to setTimeout.
ProactiveTimerFire(tm, systemIdleMs) ==
    /\ tm \in pendingProactive
    /\ now >= tm.at
    /\ lastOp' = "proactiveTimer"
    /\ ret' = <<>>
    /\ attemptProactiveMessage([pending |-> pendingProactive \ {tm},
                                handle |-> NoTimer,
                                scheduled |-> lastScheduled], systemIdleMs)
    /\ UNCHANGED <<now, mainWindow, modeVars, typingVars, screenVars,
                   chatInFlight, lastUserActivityAt>>

\* The steps of a timer callback that can fail, and the lastOp each leaves.
FailSteps == {"idle", "readHistory", "writeHistory", "send"}
FaultOp(step) ==
    CASE step = "idle" -> "proactiveTimer: idle sampling failed"
      [] step = "readHistory" -> "proactiveTimer: readHistory failed"
      [] step = "writeHistory" -> "proactiveTimer: writeHistory failed"
      [] step = "send" -> "proactiveTimer: send failed"
FaultOps == {FaultOp(step) : step \in FailSteps}

\* The timer callback when one of its steps fails. readHistory catches its
\* own errors and returns []; nothing catches the others, so the rejected
\* promise of attemptProactiveMessage is dropped by "void" and the statements
\* after the failing one do not run.
ProactiveTimerFault(tm, systemIdleMs, step) ==
    /\ tm \in pendingProactive
    /\ now >= tm.at
    /\ lastOp' = FaultOp(step)
    /\ ret' = <<>>
    /\ LET p == [pending |-> pendingProactive \ {tm},
                 handle |-> NoTimer,
                 scheduled |-> lastScheduled]
       IN CASE step = "idle" ->
                 /\ canSendBeforeIdle
                 /\ idleProbe' = {}
                 /\ sent' = <<>>
                 /\ SetTimer(p)
                 /\ UNCHANGED <<lastProactiveMessage, history, lastProactiveAt, emitted>>
            [] step = "readHistory" ->
                 /\ canSendProactive(now, systemIdleMs)
                 /\ idleProbe' = {systemIdleMs}
                 /\ \E content \in templateOptions :
                       /\ lastProactiveMessage' = content
                       /\ history' = <<"proactive">>
                       /\ sent' = <<ProactiveMessage(content)>>
                       /\ emitted' = Append(emitted, now)
                       /\ lastProactiveAt' = now
                       /\ SetTimer(scheduleProactiveCheck(p, PROACTIVE_RATE_LIMIT_MS, now))
            [] step = "writeHistory" ->
                 /\ canSendProactive(now, systemIdleMs)
                 /\ idleProbe' = {systemIdleMs}
                 /\ \E content \in templateOptions : lastProactiveMessage' = content
                 /\ sent' = <<>>
                 /\ SetTimer(p)
                 /\ UNCHANGED <<history, lastProactiveAt, emitted>>
            [] step = "send" ->
                 /\ canSendProactive(now, systemIdleMs)
                 /\ idleProbe' = {systemIdleMs}
                 /\ \E content \in templateOptions : lastProactiveMessage' = content
                 /\ history' = Append(history, "proactive")
                 /\ sent' = <<>>
                 /\ SetTimer(p)
                 /\ UNCHANGED <<lastProactiveAt, emitted>>
    /\ UNCHANGED <<now, mainWindow, modeVars, typingVars, screenVars,
                   chatInFlight, lastUserActivityAt>>

\* Mutant: a tick leaves a stored "screen locked" alone.
storeIfChanged_keepsLocked(ms, next) ==
    IF ms.effectiveReason = "screen locked" THEN ms
    ELSE IF next.mode # ms.effectiveMode \/ next.reason # ms.effectiveReason
    THEN [ms EXCEPT !.effectiveMode = next.mode, !.effectiveReason = next.reason]
    ELSE ms

\* The store at the end of runModeLoop: only a changed pair is written.
storeIfChanged(ms, next) ==
    IF next.mode # ms.effectiveMode \/ next.reason # ms.effectiveReason
    THEN [ms EXCEPT !.effectiveMode = next.mode, !.effectiveReason = next.reason]
    ELSE ms

\* Mutant: broadcastMode moved inside the "changed" branch.
runModeLoopResume_onChange(ms, idleMs) ==
    LET sampled == sampleIdle(ms, idleMs)
        next == computeEffectiveMode(sampled, now)
    IN /\ modeState' = storeIfChanged(sampled, next)
       /\ sent' = IF Pair(modeState') # Pair(ms) THEN broadcastMode(modeState') ELSE <<>>

\* runModeLoop after "await refreshActiveApp()", with modeState as ms.
runModeLoopResume(ms, idleMs) ==
    LET sampled == sampleIdle(ms, idleMs)
        next == computeEffectiveMode(sampled, now)
    IN /\ modeState' = storeIfChanged(sampled, next)
       /\ sent' = broadcastMode(modeState')

\* Mutant: refreshActiveApp without its "if (activeAppCheckInFlight) return".
TickStart_unguarded ==
    /\ activeAppCheckInFlight' = TRUE
    /\ lookupsInFlight' = lookupsInFlight + 1
    /\ lastOp' = "tickStart"
    /\ ret' = <<>>
    /\ idleProbe' = {}
    /\ sent' = <<>>
    /\ UNCHANGED <<now, mainWindow, modeState, settings, proactiveTimerVars, typingVars,
                   proactiveVars, chatVars, lastUserActivityAt>>

\* A tick of setInterval while no lookup is in flight: refreshActiveApp sets
\* the guard and awaits getActiveAppName.
TickStart ==
    /\ ~activeAppCheckInFlight
    /\ activeAppCheckInFlight' = TRUE
    /\ lookupsInFlight' = lookupsInFlight + 1
    /\ lastOp' = "tickStart"
    /\ ret' = <<>>
    /\ idleProbe' = {}
    /\ sent' = <<>>
    /\ UNCHANGED <<now, mainWindow, modeState, settings, proactiveTimerVars, typingVars,
                   proactiveVars, chatVars, lastUserActivityAt>>

\* A tick while a lookup is in flight: refreshActiveApp returns at once.
TickCached(idleMs) ==
    /\ activeAppCheckInFlight
    /\ lastOp' = "tick"
    /\ ret' = <<>>
    /\ idleProbe' = {}
    /\ runModeLoopResume(modeState, idleMs)
    /\ UNCHANGED <<now, mainWindow, activeAppCheckInFlight, lookupsInFlight, settings, proactiveTimerVars,
                   typingVars, proactiveVars, chatVars, lastUserActivityAt>>

\* getActiveAppName returns (name = NoApp: null, also after a caught error);
\* refreshActiveApp stores it and the awaiting runModeLoop resumes.
LookupDone(name, idleMs) ==
    /\ lookupsInFlight > 0
    /\ lookupsInFlight' = lookupsInFlight - 1
    /\ activeAppCheckInFlight' = FALSE
    /\ lastOp' = "tick"
    /\ ret' = <<>>
    /\ idleProbe' = {}
    /\ runModeLoopResume([modeState EXCEPT
                              !.activeApp = name,
                              !.appCategory = classifyApp(normalizeProcessName(name))],
                         idleMs)
    /\ UNCHANGED <<now, mainWindow, settings, proactiveTimerVars, typingVars,
                   proactiveVars, chatVars, lastUserActivityAt>>

\* getActiveAppName fails (the subprocess errors, or the platform is none of
\* the three it knows): its catch, or its last line, returns null, and
\* refreshActiveApp stores that result like any other.
LookupFailed(idleMs) ==
    /\ lookupsInFlight > 0
    /\ lookupsInFlight' = lookupsInFlight - 1
    /\ activeAppCheckInFlight' = FALSE
    /\ lastOp' = "tick: lookup failed"
    /\ ret' = <<>>
    /\ idleProbe' = {}
    /\ runModeLoopResume([modeState EXCEPT
                              !.activeApp = NoApp,
                              !.appCategory = classifyApp(normalizeProcessName(NoApp))],
                         idleMs)
    /\ UNCHANGED <<now, mainWindow, settings, proactiveTimerVars, typingVars,
                   proactiveVars, chatVars, lastUserActivityAt>>

\* Mutant: the primary setting is ignored, a locked screen always gives Quiet.
lockScreenMode_alwaysQuiet(ms) ==
    [ms EXCEPT !.effectiveMode = "idle", !.effectiveReason = "screen locked"]

\* Mutant: the override waits for the next tick when the primary setting is Hang out.
lockScreenMode_deferred(ms) ==
    IF ms.primaryMode = "active" THEN ms
    ELSE IF ms.primaryMode = "serious"
    THEN [ms EXCEPT !.effectiveMode = "serious", !.effectiveReason = "primary setting: Focus"]
    ELSE [ms EXCEPT !.effectiveMode = "idle", !.effectiveReason = "primary setting: Quiet"]

\* What powerMonitor.on("lock-screen") stores.
lockScreenMode(ms) ==
    IF ms.primaryMode = "active"
    THEN [ms EXCEPT !.effectiveMode = "idle", !.effectiveReason = "screen locked"]
    ELSE IF ms.primaryMode = "serious"
    THEN [ms EXCEPT !.effectiveMode = "serious", !.effectiveReason = "primary setting: Focus"]
    ELSE [ms EXCEPT !.effectiveMode = "idle", !.effectiveReason = "primary setting: Quiet"]

LockScreen ==
    /\ lastOp' = "lockScreen"
    /\ ret' = <<>>
    /\ idleProbe' = {}
    /\ modeState' = lockScreenMode(modeState)
    /\ sent' = broadcastMode(modeState')
    /\ UNCHANGED <<now, mainWindow, activeAppCheckInFlight, lookupsInFlight, settings, proactiveTimerVars,
                   typingVars, proactiveVars, chatVars, lastUserActivityAt>>

\* "Boolean(oneShotScreenshot) && modeState.effectiveMode === 'active'"
canUseScreenshot(oneShotScreenshot, ms) ==
    oneShotScreenshot # NoScreenshot /\ ms.effectiveMode = "active"

\* The screenshots put into requests once ai:chat has built its payload:
\* the one-shot screenshot goes to the last user message of the thread.
attachScreenshot(messages, oneShotScreenshot, ms) ==
    IF /\ canUseScreenshot(oneShotScreenshot, ms)
       /\ \E i \in 1..Len(messages) : messages[i] = "user"
    THEN Append(attached, oneShotScreenshot)
    ELSE attached

\* ipcMain.handle("screen:look") up to "await captureOneShotScreenshot()"
ScreenLook ==
    /\ lastOp' = "screen:look"
    /\ idleProbe' = {}
    /\ sent' = <<>>
    /\ IF modeState.effectiveMode # "active"
       THEN /\ ret' = <<[ok |-> FALSE, reason |-> "not_available"]>>
            /\ UNCHANGED <<capturing, captures>>
       ELSE /\ ret' = <<>>
            /\ captures' = captures + 1
            /\ capturing' = capturing \cup {captures'}
    /\ UNCHANGED <<now, mainWindow, modeVars, proactiveTimerVars, typingVars, proactiveVars,
                   pendingScreenshot, attached, history, chatInFlight, lastUserActivityAt>>

\* screen:look after the await: the capture is stored; a capture that
\* throws rejects the request and stores nothing.
CaptureDone(shot, ok) ==
    /\ shot \in capturing
    /\ capturing' = capturing \ {shot}
    /\ lastOp' = "screen:look done"
    /\ idleProbe' = {}
    /\ sent' = <<>>
    /\ pendingScreenshot' = IF ok THEN shot ELSE pendingScreenshot
    /\ ret' = IF ok THEN <<[ok |-> TRUE]>> ELSE <<"error">>
    /\ UNCHANGED <<now, mainWindow, modeVars, proactiveTimerVars, typingVars, proactiveVars,
                   captures, attached, history, chatInFlight, lastUserActivityAt>>

\* Mutant: screen:discard answers without dropping the screenshot.
ScreenDiscard_keeps ==
    /\ lastOp' = "screen:discard"
    /\ idleProbe' = {}
    /\ sent' = <<>>
    /\ ret' = <<TRUE>>
    /\ UNCHANGED <<now, mainWindow, modeVars, proactiveTimerVars, typingVars, proactiveVars,
                   chatVars, lastUserActivityAt>>

\* ipcMain.handle("screen:discard")
ScreenDiscard ==
    /\ lastOp' = "screen:discard"
    /\ idleProbe' = {}
    /\ sent' = <<>>
    /\ pendingScreenshot' = NoScreenshot
    /\ ret' = <<TRUE>>
    /\ UNCHANGED <<now, mainWindow, modeVars, proactiveTimerVars, typingVars, proactiveVars,
                   capturing, captures, attached, history, chatInFlight, lastUserActivityAt>>

\* Threads the renderer passes to ai:chat.
ChatThreads == {<<"user">>}

\* ipcMain.handle("ai:chat") up to "await fetch"; the renderer sends one
\* request at a time (its loading flag).
Chat(messages, idleMs) ==
    /\ chatInFlight = {}
    /\ lastOp' = "chat"
    /\ ret' = <<>>
    /\ idleProbe' = {}
    /\ modeState' = recompute([modeState EXCEPT !.lastUserSendAt = now], idleMs, now)
    /\ sent' = broadcastMode(modeState')
    /\ history' = SelectSeq(messages, LAMBDA m : m # "system")
    /\ pendingScreenshot' = NoScreenshot
    /\ attached' = attachScreenshot(messages, pendingScreenshot, modeState')
    /\ chatInFlight' = {messages}
    /\ UNCHANGED <<now, mainWindow, activeAppCheckInFlight, lookupsInFlight, settings, proactiveTimerVars,
                   typingVars, proactiveVars, lastUserActivityAt, capturing, captures>>

\* ai:chat after "await fetch": ok, the reply is stored; otherwise it throws.
ChatDone(messages, ok) ==
    /\ messages \in chatInFlight
    /\ chatInFlight' = chatInFlight \ {messages}
    /\ lastOp' = "chatDone"
    /\ ret' = IF ok THEN <<"assistantText">> ELSE <<"error">>
    /\ idleProbe' = {}
    /\ sent' = <<>>
    /\ history' = IF ok
                  THEN Append(SelectSeq(messages, LAMBDA m : m # "system"), "assistant")
                  ELSE history
    /\ UNCHANGED <<now, mainWindow, modeVars, proactiveTimerVars, typingVars,
                   proactiveVars, screenVars, lastUserActivityAt>>

\* toggleWindow (global shortcut)
ToggleWindow ==
    /\ mainWindow # "null"
    /\ mainWindow' = IF mainWindow = "visible" THEN "hidden" ELSE "visible"
    /\ lastOp' = "toggleWindow"
    /\ ret' = <<>>
    /\ idleProbe' = {}
    /\ sent' = <<>>
    /\ UNCHANGED <<now, modeVars, proactiveTimerVars, typingVars, proactiveVars,
                   chatVars, lastUserActivityAt>>

\* mainWindow.on("closed")
WindowClosed ==
    /\ mainWindow # "null"
    /\ mainWindow' = "null"
    /\ lastOp' = "windowClosed"
    /\ ret' = <<>>
    /\ idleProbe' = {}
    /\ sent' = <<>>
    /\ UNCHANGED <<now, modeVars, proactiveTimerVars, typingVars, proactiveVars,
                   chatVars, lastUserActivityAt>>

\* The clock moves on to t while no handler runs.
Advance(t) ==
    /\ t > now
    /\ now' = t
    /\ lastOp' = "advance"
    /\ ret' = <<>>
    /\ idleProbe' = {}
    /\ sent' = <<>>
    /\ UNCHANGED <<mainWindow, modeVars, proactiveTimerVars, typingVars, proactiveVars,
                   chatVars, lastUserActivityAt>>

----------------------------------------------------------------------------
(* Pull-path proactivity engine (src/main/main.ts)                         *)
(*                                                                         *)
(* initiative is kept in hundredths, the relationship score in 240ths and  *)
(* the proactivity chance and its uniform draw in 40000ths, so that every  *)
(* product and threshold of the code is an integer.  A time of 0 stands    *)
(* for null: the code reads times with "Number(x) || null" and tests them  *)
(* by truthiness.                                                          *)

PROACTIVE_MIN_GAP_MS == 120000
IGNORE_DECAY_GAP_MS == 21600000
DAY_MS == 86400000

INITIATIVE_DEFAULT == 35
INITIATIVE_MIN == 5
INITIATIVE_MAX == 95
INITIATIVE_UP == 8
INITIATIVE_DOWN == 5
RECENT_TEMPLATES_KEPT == 8

Null == "null"
NoTime == 0

AMBIENT_TEMPLATES ==
    <<"ambient-still-here", "ambient-quiet", "ambient-around", "ambient-hanging",
      "ambient-sitting">>
INVITATION_TEMPLATES == <<"invite-company", "invite-talk", "invite-hang", "invite-share">>
MEMORY_TEMPLATES == <<"memory-stuck", "memory-thinking", "memory-returned">>
EMOTIONAL_TEMPLATES(cue) ==
    CASE cue = "tired" -> <<"emotion-tired-worn", "emotion-tired-heavy">>
      [] cue = "stressed" -> <<"emotion-stressed-weight", "emotion-stressed-tight">>
      [] cue = "excited" -> <<"emotion-excited-light", "emotion-excited-bright">>
      [] cue = "happy" -> <<"emotion-happy-lighter", "emotion-happy-warm">>
      [] cue = "down" -> <<"emotion-down-soft", "emotion-down-heavy">>

Min(a, b) == IF a <= b THEN a ELSE b
clamp(value, min, max) == Max(min, Min(max, value))

\* Math.floor(Math.random() * pool.length) for a draw of r / RandomDen.
RandomDen == 40000
randomIndex(r, len) == (r * len) \div RandomDen + 1

\* getTodayKey: the UTC date of Date.now().
getTodayKey(t) == t \div DAY_MS

defaultProactivity ==
    [initiative |-> INITIATIVE_DEFAULT,
     pendingResponse |-> FALSE,
     lastProactiveAt |-> NoTime,
     lastProactiveCategory |-> Null,
     lastMemoryEchoAt |-> NoTime,
     lastMemoryEchoFact |-> Null,
     lastUserMessageAt |-> NoTime,
     lastUserMessageText |-> Null,
     totalUserMessages |-> 0,
     daysUsed |-> {},
     messagesSinceMemoryEcho |-> 0,
     recentTemplateIds |-> <<>>,
     lastIgnoredAt |-> NoTime]

\* "Number(parsed?.initiative) || 0.35": raw is <<>> for a value Number turns
\* into NaN and <<v>> for the number v; NaN and 0 are falsy.
numberOr(raw, fallback) ==
    IF raw = <<>> THEN fallback
    ELSE IF raw[1] = 0 THEN fallback
    ELSE raw[1]

\* readProactivity on the file content: defaults for a missing or unparsable
\* file, otherwise field-by-field coercion.  Only initiative is clamped.
readProactivity(file) ==
    IF file = <<>> THEN defaultProactivity
    ELSE LET parsed == file[1]
         IN [parsed EXCEPT
                !.initiative = clamp(numberOr(parsed.initiative, INITIATIVE_DEFAULT),
                                     INITIATIVE_MIN, INITIATIVE_MAX)]

\* writeProactivity: JSON.stringify of the state.
writeProactivity(state) ==
    <<[state EXCEPT !.initiative = <<state.initiative>>]>>

\* getRelationshipScore, in 240ths.
getRelationshipScore(state) ==
    LET messageScore24 == clamp(state.totalUserMessages, 0, 24)
        daysScore8 == clamp(Cardinality(state.daysUsed), 0, 8)
    IN clamp(7 * messageScore24 + 9 * daysScore8, 0, 240)

\* detectEmotionCue on the texts the model sends: the first cue, in the
\* order of EMOTION_KEYWORDS, one of whose words the text contains.
detectEmotionCue(text) ==
    CASE text = Null -> Null
      [] text = "hello" -> Null
      [] text = "glad but exhausted" -> "tired"
      [] text = "a rough day" -> "down"
      [] OTHER -> Null

\* Mutant: pickTemplate without the filter on recent ids.
pickTemplate_unfiltered(templates, recentIds, r) ==
    templates[randomIndex(r, Len(templates))]

pickTemplate(templates, recentIds, r) ==
    LET recent == {recentIds[i] : i \in 1..Len(recentIds)}
        filtered == SelectSeq(templates, LAMBDA id : id \notin recent)
        pool == IF Len(filtered) > 0 THEN filtered ELSE templates
    IN pool[randomIndex(r, Len(pool))]

\* Mutant: pickMemoryFact without the filter on the last echoed fact.
pickMemoryFact_any(facts, state, r) ==
    IF Len(facts) = 0 THEN Null ELSE facts[randomIndex(r, Len(facts))]

pickMemoryFact(facts, state, r) ==
    IF Len(facts) = 0 THEN Null
    ELSE LET candidates == SelectSeq(facts, LAMBDA fact : fact # state.lastMemoryEchoFact)
             pool == IF Len(candidates) > 0 THEN candidates ELSE facts
         IN pool[randomIndex(r, Len(pool))]

\* Mutant: every conversation depth allows every category.
getAllowedCategories_all(depth) ==
    <<"ambient", "memory", "emotional", "invitation">>

getAllowedCategories(depth) ==
    IF depth = 1 THEN <<"ambient">>
    ELSE IF depth = 2 THEN <<"ambient", "memory">>
    ELSE IF depth = 3 THEN <<"ambient", "memory", "emotional">>
    ELSE <<"ambient", "memory", "emotional", "invitation">>

includes(seq, x) == \E i \in 1..Len(seq) : seq[i] = x

triggerBoost(trigger) ==
    CASE trigger = "session-start" -> 45
      [] trigger = "session-focus" -> 25
      [] trigger = "memory-added" -> 60

\* getProactivityChance, in 40000ths.
getProactivityChance(trigger, state) ==
    clamp(4 * state.initiative * triggerBoost(trigger) + 25 * getRelationshipScore(state),
          4000, 34000)

\* The thresholds 0.35 and 0.45 of the relationship score, in 240ths.
EMOTIONAL_MIN_SCORE == 84
INVITATION_MIN_SCORE == 108
MEMORY_MIN_MESSAGES == 3

\* Mutant: the draw is not compared with the chance.
drawFails_never(rChance, chance) == FALSE

\* "if (Math.random() > chance) return null"
drawFails(rChance, chance) == rChance > chance

\* null, or the message maybeBuildProactiveMessage built.
NoMessage == <<>>
Message(category, templateId, fact) ==
    <<[category |-> category, templateId |-> templateId, fact |-> fact]>>

\* maybeBuildProactiveMessage at time t; rChance, rCategory, rFact and
\* rTemplate are its Math.random() draws.
maybeBuildProactiveMessage(trigger, facts, state, depth, t, rChance, rCategory, rFact, rTemplate) ==
    IF state.lastProactiveAt # NoTime /\ t - state.lastProactiveAt < PROACTIVE_MIN_GAP_MS
    THEN NoMessage
    ELSE
    LET allowed == getAllowedCategories(depth)
        relationshipScore == getRelationshipScore(state)
        canUseMemory == /\ includes(allowed, "memory")
                        /\ Len(facts) > 0
                        /\ state.messagesSinceMemoryEcho >= MEMORY_MIN_MESSAGES
        emotionCue == IF includes(allowed, "emotional")
                      THEN detectEmotionCue(state.lastUserMessageText)
                      ELSE Null
        canUseEmotional == emotionCue # Null /\ relationshipScore >= EMOTIONAL_MIN_SCORE
        canInvite == includes(allowed, "invitation") /\ relationshipScore >= INVITATION_MIN_SCORE
        preferredCategory == IF trigger = "memory-added" /\ canUseMemory THEN "memory" ELSE Null
        available == <<"ambient">>
                     \o (IF canUseMemory THEN <<"memory">> ELSE <<>>)
                     \o (IF canUseEmotional THEN <<"emotional">> ELSE <<>>)
                     \o (IF canInvite THEN <<"invitation">> ELSE <<>>)
        chance == getProactivityChance(trigger, state)
        category == IF preferredCategory # Null
                    THEN preferredCategory
                    ELSE available[randomIndex(rCategory, Len(available))]
    IN IF drawFails(rChance, chance) THEN NoMessage
       ELSE IF category = "memory"
       THEN LET fact == pickMemoryFact(facts, state, rFact)
            IN IF fact = Null THEN NoMessage
               ELSE Message(category,
                            pickTemplate(MEMORY_TEMPLATES, state.recentTemplateIds, rTemplate),
                            fact)
       ELSE IF category = "emotional" /\ emotionCue # Null
       THEN Message(category,
                    pickTemplate(EMOTIONAL_TEMPLATES(emotionCue), state.recentTemplateIds,
                                 rTemplate),
                    Null)
       ELSE IF category = "invitation"
       THEN Message(category,
                    pickTemplate(INVITATION_TEMPLATES, state.recentTemplateIds, rTemplate),
                    Null)
       ELSE Message("ambient",
                    pickTemplate(AMBIENT_TEMPLATES, state.recentTemplateIds, rTemplate),
                    Null)

\* messages.filter((m) => m.role !== "system")
withoutSystem(messages) == SelectSeq(messages, LAMBDA m : m.role # "system")

\* getLastUserMessageText: the content of the last user message, or null.
getLastUserMessageText(messages) ==
    LET users == {i \in 1..Len(messages) : messages[i].role = "user"}
    IN IF users = {} THEN Null
       ELSE messages[CHOOSE i \in users : \A j \in users : j <= i].content

\* Mutant: a user message is counted but leaves pendingResponse as it was.
updateProactivityForUserMessage_keepsPending(state, messages, t) ==
    [state EXCEPT
        !.totalUserMessages = state.totalUserMessages + 1,
        !.messagesSinceMemoryEcho = state.messagesSinceMemoryEcho + 1,
        !.lastUserMessageAt = t,
        !.daysUsed = state.daysUsed \cup {getTodayKey(t)}]

\* Mutant: the reward for an answered proactive message is not clamped.
updateProactivityForUserMessage_unclamped(state, messages, t) ==
    LET counted == [state EXCEPT
                       !.totalUserMessages = state.totalUserMessages + 1,
                       !.messagesSinceMemoryEcho = state.messagesSinceMemoryEcho + 1,
                       !.lastUserMessageAt = t,
                       !.daysUsed = state.daysUsed \cup {getTodayKey(t)}]
    IN IF counted.pendingResponse
       THEN [counted EXCEPT
                !.pendingResponse = FALSE,
                !.initiative = counted.initiative + INITIATIVE_UP,
                !.lastIgnoredAt = NoTime]
       ELSE counted

\* Mutant: an answered proactive message clears the flag without a reward.
updateProactivityForUserMessage_noReward(state, messages, t) ==
    LET counted == [state EXCEPT
                       !.totalUserMessages = state.totalUserMessages + 1,
                       !.messagesSinceMemoryEcho = state.messagesSinceMemoryEcho + 1,
                       !.lastUserMessageAt = t,
                       !.daysUsed = state.daysUsed \cup {getTodayKey(t)}]
    IN IF counted.pendingResponse
       THEN [counted EXCEPT !.pendingResponse = FALSE, !.lastIgnoredAt = NoTime]
       ELSE counted

\* Mutant: every user message is rewarded, pending message or not.
updateProactivityForUserMessage_alwaysRewards(state, messages, t) ==
    LET lastUserText == getLastUserMessageText(messages)
    IN [state EXCEPT
           !.totalUserMessages = state.totalUserMessages + 1,
           !.messagesSinceMemoryEcho = state.messagesSinceMemoryEcho + 1,
           !.lastUserMessageAt = t,
           !.lastUserMessageText =
               IF lastUserText # Null /\ lastUserText # ""
               THEN lastUserText
               ELSE state.lastUserMessageText,
           !.daysUsed = state.daysUsed \cup {getTodayKey(t)},
           !.pendingResponse = FALSE,
           !.initiative = clamp(state.initiative + INITIATIVE_UP,
                                INITIATIVE_MIN, INITIATIVE_MAX),
           !.lastIgnoredAt = NoTime]

\* Mutant: daysUsed keeps the current day only.
updateProactivityForUserMessage_todayOnly(state, messages, t) ==
    LET lastUserText == getLastUserMessageText(messages)
        counted == [state EXCEPT
                       !.totalUserMessages = state.totalUserMessages + 1,
                       !.messagesSinceMemoryEcho = state.messagesSinceMemoryEcho + 1,
                       !.lastUserMessageAt = t,
                       !.lastUserMessageText =
                           IF lastUserText # Null /\ lastUserText # ""
                           THEN lastUserText
                           ELSE state.lastUserMessageText,
                       !.daysUsed = {getTodayKey(t)}]
    IN IF counted.pendingResponse
       THEN [counted EXCEPT
                !.pendingResponse = FALSE,
                !.initiative = clamp(counted.initiative + INITIATIVE_UP,
                                     INITIATIVE_MIN, INITIATIVE_MAX),
                !.lastIgnoredAt = NoTime]
       ELSE counted

\* The state updateProactivityForUserMessage writes, from the state it read.
updateProactivityForUserMessage(state, messages, t) ==
    LET lastUserText == getLastUserMessageText(messages)
        counted == [state EXCEPT
                       !.totalUserMessages = state.totalUserMessages + 1,
                       !.messagesSinceMemoryEcho = state.messagesSinceMemoryEcho + 1,
                       !.lastUserMessageAt = t,
                       !.lastUserMessageText =
                           IF lastUserText # Null /\ lastUserText # ""
                           THEN lastUserText
                           ELSE state.lastUserMessageText,
                       !.daysUsed = state.daysUsed \cup {getTodayKey(t)}]
    IN IF counted.pendingResponse
       THEN [counted EXCEPT
                !.pendingResponse = FALSE,
                !.initiative = clamp(counted.initiative + INITIATIVE_UP,
                                     INITIATIVE_MIN, INITIATIVE_MAX),
                !.lastIgnoredAt = NoTime]
       ELSE counted

\* Mutant: slice(0, n), the first n elements.
sliceLast_first(seq, n) ==
    IF Len(seq) <= n THEN seq ELSE SubSeq(seq, 1, n)

\* slice(-n) of a sequence.
sliceLast(seq, n) ==
    IF Len(seq) <= n THEN seq ELSE SubSeq(seq, Len(seq) - n + 1, Len(seq))

\* The state of the timer-path program, which main.ts does not have.
timerPathVars ==
    <<modeState, activeAppCheckInFlight, lookupsInFlight, mainWindow, settings,
      pendingProactive, proactiveTimer, pendingTyping, typingTimer, lastProactiveAt,
      lastProactiveMessage, lastUserActivityAt, isUserTyping, screenVars, history,
      chatInFlight, sent, idleProbe, emitted, lastScheduled, prevPair>>

\* The files and requests of main.ts.
pullVars ==
    <<proactivityJson, memoryJson, settingsJson, chatHistoryJson, pendingChats, initiated,
      attempt>>

\* No maybeInitiate call recorded.
NoAttempt == <<>>

\* Model bounds of the pull path: emissions and user messages recorded.
MaxInitiated == 3
MaxUserMessages == 2

Triggers == {"session-start", "session-focus", "memory-added"}

\* Uniform draws: the smallest, one between the two clamps of the chance,
\* and the largest.
RandomSamples == {0, 10000, RandomDen - 1}
RandomExtremes == {0, RandomDen - 1}

\* Mutant: the decay window is measured from the emission.
ignoreDecayElapsed_fromEmission(state, t) ==
    t - state.lastProactiveAt > IGNORE_DECAY_GAP_MS

\* Mutant: every attempt on an unanswered message is due a penalty.
ignoreDecayElapsed_always(state, t) == TRUE

\* "!state.lastIgnoredAt || now - state.lastIgnoredAt > IGNORE_DECAY_GAP_MS"
ignoreDecayElapsed(state, t) ==
    \/ state.lastIgnoredAt = NoTime
    \/ t - state.lastIgnoredAt > IGNORE_DECAY_GAP_MS

\* Mutant: the penalty also gives up on the unanswered message.
ignoredPenalty_givesUp(state, t) ==
    [state EXCEPT
        !.initiative = clamp(state.initiative - INITIATIVE_DOWN,
                             INITIATIVE_MIN, INITIATIVE_MAX),
        !.pendingResponse = FALSE,
        !.lastIgnoredAt = t]

\* Mutant: an ignored message is noted but costs nothing.
ignoredPenalty_free(state, t) ==
    [state EXCEPT !.lastIgnoredAt = t]

\* The state maybeInitiate writes for an ignored proactive message.
ignoredPenalty(state, t) ==
    [state EXCEPT
        !.initiative = clamp(state.initiative - INITIATIVE_DOWN,
                             INITIATIVE_MIN, INITIATIVE_MAX),
        !.lastIgnoredAt = t]

\* ipcMain.handle("proactivity:maybeInitiate")
MaybeInitiate(trigger, rChance, rCategory, rFact, rTemplate) ==
    LET state == readProactivity(proactivityJson)
    IN /\ lastOp' = "maybeInitiate"
       /\ IF state.pendingResponse
          THEN /\ proactivityJson' =
                     IF ignoreDecayElapsed(state, now)
                     THEN writeProactivity(ignoredPenalty(state, now))
                     ELSE proactivityJson
               /\ ret' = <<Null>>
               /\ UNCHANGED <<chatHistoryJson, initiated>>
          ELSE LET result == maybeBuildProactiveMessage(trigger, memoryJson, state, settingsJson,
                                                        now, rChance, rCategory, rFact, rTemplate)
               IN IF result = NoMessage
                  THEN /\ ret' = <<Null>>
                       /\ UNCHANGED <<proactivityJson, chatHistoryJson, initiated>>
                  ELSE LET msg == result[1]
                           nextState ==
                               [state EXCEPT
                                   !.pendingResponse = TRUE,
                                   !.lastProactiveAt = now,
                                   !.lastProactiveCategory = msg.category,
                                   !.recentTemplateIds =
                                       sliceLast(Append(state.recentTemplateIds, msg.templateId),
                                                 RECENT_TEMPLATES_KEPT),
                                   !.lastIgnoredAt = NoTime]
                           echoed ==
                               IF msg.category = "memory"
                               THEN [nextState EXCEPT
                                        !.messagesSinceMemoryEcho = 0,
                                        !.lastMemoryEchoAt = now,
                                        !.lastMemoryEchoFact = msg.fact]
                               ELSE nextState
                       IN /\ proactivityJson' = writeProactivity(echoed)
                          /\ chatHistoryJson' =
                                 Append(chatHistoryJson,
                                        [role |-> "assistant", content |-> msg.templateId])
                          /\ initiated' = Append(initiated, [at |-> now,
                                                             category |-> msg.category,
                                                             templateId |-> msg.templateId,
                                                             fact |-> msg.fact,
                                                             userMessages |->
                                                                 state.totalUserMessages])
                          /\ ret' = <<msg.templateId>>
       /\ UNCHANGED <<now, memoryJson, settingsJson, pendingChats, timerPathVars>>

\* ipcMain.handle("ai:chat") of main.ts up to "await fetch".
PullChat(messages) ==
    LET state == readProactivity(proactivityJson)
    IN /\ messages \notin pendingChats
       /\ lastOp' = "ai:chat"
       /\ ret' = <<>>
       /\ chatHistoryJson' = withoutSystem(messages)
       /\ proactivityJson' =
              writeProactivity(updateProactivityForUserMessage(state, messages, now))
       /\ pendingChats' = pendingChats \cup {messages}
       /\ UNCHANGED <<now, memoryJson, settingsJson, initiated, timerPathVars>>

\* ai:chat of main.ts after "await fetch": ok, the reply is appended to the
\* thread of the request and written; otherwise the handler throws.
PullChatDone(messages, ok) ==
    /\ messages \in pendingChats
    /\ pendingChats' = pendingChats \ {messages}
    /\ lastOp' = "ai:chat done"
    /\ ret' = IF ok THEN <<"assistantText">> ELSE <<"error">>
    /\ chatHistoryJson' =
           IF ok
           THEN Append(withoutSystem(messages), [role |-> "assistant", content |-> "assistantText"])
           ELSE chatHistoryJson
    /\ UNCHANGED <<now, proactivityJson, memoryJson, settingsJson, initiated, timerPathVars>>

\* pickTemplate applied to one pool, each selection recorded the way
\* maybeInitiate records the template of an emission.
selectTemplate(templates, r) ==
    LET state == readProactivity(proactivityJson)
        templateId == pickTemplate(templates, state.recentTemplateIds, r)
    IN /\ lastOp' = "pickTemplate"
       /\ ret' = <<templateId>>
       /\ proactivityJson' =
              writeProactivity(
                  [state EXCEPT
                      !.recentTemplateIds =
                          sliceLast(Append(state.recentTemplateIds, templateId),
                                    RECENT_TEMPLATES_KEPT)])
       /\ initiated' = Append(initiated, [at |-> now,
                                          category |-> Null,
                                          templateId |-> templateId,
                                          fact |-> Null,
                                          userMessages |-> state.totalUserMessages])
       /\ UNCHANGED <<now, memoryJson, settingsJson, chatHistoryJson, pendingChats,
                      timerPathVars>>

\* ipcMain.handle("memory:addFact"): a new fact goes to the front, at most
\* MEMORY_FACTS_KEPT facts are kept.
MEMORY_FACTS_KEPT == 50

trim(fact) == IF fact = " " THEN "" ELSE fact

AddFact(fact) ==
    LET trimmed == trim(fact)
    IN /\ lastOp' = "addFact"
       /\ memoryJson' =
              IF trimmed = "" \/ includes(memoryJson, trimmed)
              THEN memoryJson
              ELSE LET unshifted == <<trimmed>> \o memoryJson
                   IN SubSeq(unshifted, 1, Min(Len(unshifted), MEMORY_FACTS_KEPT))
       /\ ret' = <<memoryJson'>>
       /\ UNCHANGED <<now, proactivityJson, settingsJson, chatHistoryJson, pendingChats,
                      initiated, timerPathVars>>

\* ipcMain.handle("settings:setConversationDepth")
normalizeConversationDepth(value) == IF value \in {2, 3, 4} THEN value ELSE 1

SetConversationDepth(depth) ==
    /\ lastOp' = "setConversationDepth"
    /\ settingsJson' = normalizeConversationDepth(depth)
    /\ ret' = <<settingsJson'>>
    /\ UNCHANGED <<now, proactivityJson, memoryJson, chatHistoryJson, pendingChats, initiated,
                   timerPathVars>>

----------------------------------------------------------------------------
(* The handlers that end by storing a resolver result *)

EvalOps ==
    {"init", "setPrimary", "toggleFocusLock", "userSent", "chat", "tick",
     "tick: lookup failed"}

----------------------------------------------------------------------------
(* Initial state: the end of the app.whenReady callback *)

\* The modeState object literal
initialModeState ==
    [primaryMode |-> DEFAULT_PRIMARY_MODE,
     effectiveMode |-> "active",
     effectiveReason |-> "primary setting: Hang out",
     idleMs |-> 0,
     isIdle |-> FALSE,
     focusLocked |-> FALSE,
     lastUserSendAt |-> 0,
     activeApp |-> NoApp,
     appCategory |-> "unknown"]

TimerPathInit ==
    /\ now = StartNow
    /\ settings \in PrimaryModes
    /\ \E idleMs \in IdleSamples :
          modeState = recompute([initialModeState EXCEPT !.primaryMode = settings],
                                idleMs, StartNow)
    /\ activeAppCheckInFlight = TRUE
    /\ lookupsInFlight = 1
    /\ ret = <<>>
    /\ mainWindow = "visible"
    /\ pendingProactive = {[id |-> 1, at |-> StartNow + PROACTIVE_IDLE_THRESHOLD_MS]}
    /\ proactiveTimer = 1
    /\ lastScheduled = StartNow + PROACTIVE_IDLE_THRESHOLD_MS
    /\ pendingTyping = {}
    /\ typingTimer = NoTimer
    /\ lastProactiveAt = 0
    /\ lastProactiveMessage = NoTemplate
    /\ lastUserActivityAt = StartNow
    /\ isUserTyping = FALSE
    /\ pendingScreenshot = NoScreenshot
    /\ capturing = {}
    /\ captures = 0
    /\ attached = <<>>
    /\ history = <<>>
    /\ chatInFlight = {}
    /\ lastOp = "init"
    /\ sent = <<ModeUpdate(modeState)>>
    /\ idleProbe = {}
    /\ emitted = <<>>
    /\ prevPair = Pair(initialModeState)

\* First start: none of the files of main.ts exists yet.
PullFresh ==
    /\ proactivityJson = <<>>
    /\ memoryJson = <<>>
    /\ settingsJson = 1
    /\ chatHistoryJson = <<>>
    /\ pendingChats = {}
    /\ initiated = <<>>
    /\ attempt = NoAttempt

Init ==
    /\ TimerPathInit
    /\ PullFresh

\* The mode engine: every handler that stores an effective mode.
ModeHandlers ==
    \/ \E nextMode \in PrimaryModes \cup {"party"}, idleMs \in IdleSamples :
          SetPrimary(nextMode, idleMs)
    \/ \E idleMs \in IdleSamples : ToggleFocusLock(idleMs)
    \/ \E idleMs \in IdleSamples : UserSent(idleMs)
    \/ TickStart
    \/ \E idleMs \in IdleSamples : TickCached(idleMs)
    \/ \E name \in LookupResults, idleMs \in IdleSamples : LookupDone(name, idleMs)
    \/ \E idleMs \in IdleSamples : LookupFailed(idleMs)
    \/ LockScreen
    \/ \E messages \in ChatThreads, idleMs \in IdleSamples : Chat(messages, idleMs)
    \/ \E messages \in chatInFlight, ok \in BOOLEAN : ChatDone(messages, ok)
    \/ WindowClosed
    \/ \E t \in ModeClock : Advance(t)

Next ==
    /\ ModeHandlers
    /\ prevPair' = Pair(modeState)
    /\ UNCHANGED pullVars

Spec == Init /\ [][Next]_vars

\* The idle sample right after user input to the application.
IdleAfterInput == {IDLE_THRESHOLD_MS - 1000}

\* The proactive scheduler: timers, activity and typing reports, and the
\* handlers that change what canSendProactive reads.  The first foreground-app
\* lookup stays in flight, so ticks resolve from the cached category.
SchedHandlers ==
    \/ ProactiveActivity
    \/ ProactiveTyping
    \/ \E tm \in pendingTyping : TypingTimerFire(tm)
    \/ \E tm \in pendingProactive, idleMs \in IdleSamples : ProactiveTimerFire(tm, idleMs)
    \/ \E nextMode \in PrimaryModes, idleMs \in IdleAfterInput : SetPrimary(nextMode, idleMs)
    \/ \E idleMs \in IdleAfterInput : ToggleFocusLock(idleMs)
    \/ WindowFocus
    \/ \E idleMs \in IdleSamples : TickCached(idleMs)
    \/ ToggleWindow
    \/ \E t \in SchedClock : Advance(t)

NextSched ==
    /\ SchedHandlers
    /\ UNCHANGED <<prevPair, pullVars>>

SpecSched == Init /\ [][NextSched]_vars

\* The proactive scheduler with failing steps in its timer callback.
FaultHandlers ==
    \/ ProactiveActivity
    \/ \E tm \in pendingProactive, idleMs \in IdleSamples : ProactiveTimerFire(tm, idleMs)
    \/ \E tm \in pendingProactive, idleMs \in IdleSamples, step \in FailSteps :
          ProactiveTimerFault(tm, idleMs, step)
    \/ \E nextMode \in PrimaryModes, idleMs \in IdleAfterInput : SetPrimary(nextMode, idleMs)
    \/ \E idleMs \in IdleSamples : TickCached(idleMs)
    \/ ToggleWindow
    \/ \E t \in SchedClock : Advance(t)

NextFault ==
    /\ FaultHandlers
    /\ UNCHANGED <<prevPair, pullVars>>

SpecFault == Init /\ [][NextFault]_vars

\* The typing flag and its grace timer, followed second by second across
\* two grace windows.
TypingClock == {StartNow + k * 1000 : k \in 0..MaxTypingSeconds}

TypingHandlers ==
    \/ ProactiveTyping
    \/ \E tm \in pendingTyping : TypingTimerFire(tm)
    \/ ProactiveActivity
    \/ \E t \in TypingClock : Advance(t)

NextTyping ==
    /\ TypingHandlers
    /\ UNCHANGED <<prevPair, pullVars>>

SpecTyping == Init /\ [][NextTyping]_vars

\* The proactive scheduler under fair scheduling.  Reports, ticks and window
\* toggles arrive until LiveHorizon; the clock runs one rate-limit window
\* past the last instant at which a message can have been emitted before it.
LiveHorizon == StartNow + 2 * PROACTIVE_IDLE_THRESHOLD_MS
LiveClock ==
    {StartNow, StartNow + PROACTIVE_IDLE_THRESHOLD_MS, LiveHorizon,
     StartNow + PROACTIVE_IDLE_THRESHOLD_MS + PROACTIVE_RATE_LIMIT_MS}

InitLive ==
    /\ Init
    /\ settings = DEFAULT_PRIMARY_MODE

\* Timers run in the order of their deadlines: a check timer runs once no
\* grace timer with an earlier deadline is pending.
CheckTimerFire ==
    \E tm \in pendingProactive, idleMs \in IdleSamples :
       /\ \A ty \in pendingTyping : ty.at >= tm.at
       /\ ProactiveTimerFire(tm, idleMs)

GraceTimerFire == \E tm \in pendingTyping : TypingTimerFire(tm)

ClockAdvance == \E t \in LiveClock : Advance(t)

LiveHandlers ==
    \/ now < LiveHorizon /\ ProactiveActivity
    \/ now < LiveHorizon /\ ProactiveTyping
    \/ now < LiveHorizon /\ \E idleMs \in IdleSamples : TickCached(idleMs)
    \/ now < LiveHorizon /\ ToggleWindow
    \/ GraceTimerFire
    \/ CheckTimerFire
    \/ ClockAdvance

NextLive ==
    /\ LiveHandlers
    /\ UNCHANGED <<prevPair, pullVars>>

\* Time passes, and a due timer's callback is run.
SpecLive ==
    /\ InitLive
    /\ [][NextLive]_vars
    /\ WF_vars(ClockAdvance /\ UNCHANGED <<prevPair, pullVars>>)
    /\ WF_vars(GraceTimerFire /\ UNCHANGED <<prevPair, pullVars>>)
    /\ WF_vars(CheckTimerFire /\ UNCHANGED <<prevPair, pullVars>>)

\* The proactive scheduler together with the foreground-app lookup: ticks
\* start lookups, lookups complete with any process name, and the check
\* timer fires in between.
AppClock == {StartNow + k * PROACTIVE_IDLE_THRESHOLD_MS : k \in 0..2}

AppHandlers ==
    \/ TickStart
    \/ \E idleMs \in IdleSamples : TickCached(idleMs)
    \/ \E name \in LookupResults, idleMs \in IdleSamples : LookupDone(name, idleMs)
    \/ \E nextMode \in PrimaryModes, idleMs \in IdleAfterInput : SetPrimary(nextMode, idleMs)
    \/ \E idleMs \in IdleAfterInput : ToggleFocusLock(idleMs)
    \/ \E tm \in pendingProactive, idleMs \in IdleSamples : ProactiveTimerFire(tm, idleMs)
    \/ \E t \in AppClock : Advance(t)

NextApp ==
    /\ AppHandlers
    /\ UNCHANGED <<prevPair, pullVars>>

SpecApp == Init /\ [][NextApp]_vars

\* One-shot screenshots: screen:look with its capture in flight,
\* screen:discard, chat requests, and the handlers and clock steps that
\* change the effective mode in between.
MaxCaptures == 2

ScreenClock == {StartNow + SERIOUS_AFTER_SEND_MS, StartNow + 2 * SERIOUS_AFTER_SEND_MS}

ScreenHandlers ==
    \/ captures < MaxCaptures /\ ScreenLook
    \/ \E shot \in capturing, ok \in BOOLEAN : CaptureDone(shot, ok)
    \/ ScreenDiscard
    \/ \E messages \in ChatThreads, idleMs \in IdleAfterInput : Chat(messages, idleMs)
    \/ \E messages \in chatInFlight, ok \in BOOLEAN : ChatDone(messages, ok)
    \/ \E nextMode \in PrimaryModes, idleMs \in IdleAfterInput : SetPrimary(nextMode, idleMs)
    \/ \E idleMs \in IdleSamples : TickCached(idleMs)
    \/ \E t \in ScreenClock : Advance(t)

NextScreen ==
    /\ ScreenHandlers
    /\ prevPair' = Pair(modeState)
    /\ UNCHANGED pullVars

SpecScreen == Init /\ [][NextScreen]_vars

\* The pull path of main.ts, started on whatever the files hold.
PullClock ==
    {StartNow + o : o \in {0, PROACTIVE_MIN_GAP_MS, IGNORE_DECAY_GAP_MS,
                           IGNORE_DECAY_GAP_MS + PROACTIVE_MIN_GAP_MS}}

\* Values of the initiative field of a persisted file: not a number, zero,
\* below the floor, in range, above the ceiling (in hundredths).
RawInitiatives == {<<>>, <<0>>, <<-100>>, <<3>>, <<90>>, <<1000>>}

PersistedProactivity ==
    {<<>>} \cup
    {<<[defaultProactivity EXCEPT !.initiative = raw, !.pendingResponse = pending]>> :
        raw \in RawInitiatives, pending \in BOOLEAN}

PullThreads ==
    {<<[role |-> "system", content |-> "prompt"],
       [role |-> "user", content |-> "glad but exhausted"]>>}

InitPull ==
    /\ TimerPathInit
    /\ settings = DEFAULT_PRIMARY_MODE
    /\ modeState.idleMs = IDLE_THRESHOLD_MS
    /\ proactivityJson \in PersistedProactivity
    /\ memoryJson = <<"tea", "the move">>
    /\ settingsJson \in {1, 4}
    /\ chatHistoryJson = <<>>
    /\ pendingChats = {}
    /\ initiated = <<>>
    /\ attempt = NoAttempt

PullHandlers ==
    \/ /\ Len(initiated) < MaxInitiated
       /\ \E trigger \in Triggers, rChance, rCategory \in RandomExtremes :
             MaybeInitiate(trigger, rChance, rCategory, 0, 0)
    \/ /\ readProactivity(proactivityJson).totalUserMessages < MaxUserMessages
       /\ \E messages \in PullThreads : PullChat(messages)
    \/ \E messages \in pendingChats, ok \in BOOLEAN : PullChatDone(messages, ok)
    \/ \E t \in PullClock : Advance(t) /\ UNCHANGED <<prevPair, pullVars>>

NextPull ==
    /\ PullHandlers
    /\ UNCHANGED attempt

SpecPull == InitPull /\ [][NextPull]_vars

\* Both proactive paths side by side: the timer path with the state it keeps
\* in memory and the pull path with the files it keeps, on one clock.
BothClock ==
    {StartNow + PROACTIVE_IDLE_THRESHOLD_MS,
     StartNow + PROACTIVE_IDLE_THRESHOLD_MS + PROACTIVE_MIN_GAP_MS}

InitBoth ==
    /\ Init
    /\ settings = DEFAULT_PRIMARY_MODE

TimerPathHandlers ==
    \/ ProactiveActivity
    \/ \E tm \in pendingProactive, idleMs \in IdleSamples : ProactiveTimerFire(tm, idleMs)
    \/ \E nextMode \in {"active", "serious"}, idleMs \in IdleAfterInput :
          SetPrimary(nextMode, idleMs)

PullPathHandlers ==
    \/ /\ Len(initiated) < MaxInitiated
       /\ \E rChance \in RandomExtremes : MaybeInitiate("session-focus", rChance, 0, 0, 0)
    \/ /\ readProactivity(proactivityJson).pendingResponse
       /\ \E messages \in PullThreads : PullChat(messages)
    \/ \E messages \in pendingChats : PullChatDone(messages, TRUE)

NextBoth ==
    \/ TimerPathHandlers /\ UNCHANGED <<prevPair, pullVars>>
    \/ PullPathHandlers /\ UNCHANGED attempt
    \/ \E t \in BothClock : Advance(t) /\ UNCHANGED <<prevPair, pullVars>>

SpecBoth == InitBoth /\ [][NextBoth]_vars

\* A long run of emissions, each answered by a user message, from the
\* default state at conversation depth 1.  Time moves on by the minimum gap
\* after each emission.
MaxRun == 9

InitRun ==
    /\ TimerPathInit
    /\ settings = DEFAULT_PRIMARY_MODE
    /\ modeState.idleMs = IDLE_THRESHOLD_MS
    /\ proactivityJson = <<>>
    /\ memoryJson = <<>>
    /\ settingsJson = 1
    /\ chatHistoryJson = <<>>
    /\ pendingChats = {}
    /\ initiated = <<>>
    /\ attempt = NoAttempt

RunHandlers ==
    \/ /\ Len(initiated) < MaxRun
       /\ \E rTemplate \in RandomExtremes :
             MaybeInitiate("session-start", 0, 0, 0, rTemplate)
    \/ /\ readProactivity(proactivityJson).pendingResponse
       /\ \E messages \in PullThreads : PullChat(messages)
    \/ \E messages \in pendingChats : PullChatDone(messages, TRUE)
    \/ /\ readProactivity(proactivityJson).lastProactiveAt = now
       /\ Advance(now + PROACTIVE_MIN_GAP_MS)
       /\ UNCHANGED <<prevPair, pullVars>>

NextRun ==
    /\ RunHandlers
    /\ UNCHANGED attempt

SpecRun == InitRun /\ [][NextRun]_vars

\* The category gates of the pull path: conversation depth, stored facts and
\* relationship score all change during the run.  A profile is what
\* proactivity.json holds after earlier sessions.
GateClock == {StartNow, StartNow + PROACTIVE_MIN_GAP_MS}

\* Chance draws: below the lower clamp, between the clamps, above the upper
\* clamp.  Category draws: the first, a middle and the last available one.
ChanceDraws == {3000, 10000, RandomDen - 1}
CategoryDraws == {0, 20000, RandomDen - 1}

GateProfiles ==
    {<<>>,
     writeProactivity([defaultProactivity EXCEPT
                          !.totalUserMessages = 11,
                          !.lastUserMessageText = "hello",
                          !.messagesSinceMemoryEcho = 2]),
     writeProactivity([defaultProactivity EXCEPT
                          !.initiative = INITIATIVE_MIN,
                          !.totalUserMessages = 14,
                          !.lastUserMessageText = "hello",
                          !.messagesSinceMemoryEcho = 3])}

FactInputs == {"tea", " "}

InitGate ==
    /\ TimerPathInit
    /\ settings = DEFAULT_PRIMARY_MODE
    /\ modeState.idleMs = IDLE_THRESHOLD_MS
    /\ proactivityJson \in GateProfiles
    /\ memoryJson = <<>>
    /\ settingsJson = 1
    /\ chatHistoryJson = <<>>
    /\ pendingChats = {}
    /\ initiated = <<>>
    /\ attempt = NoAttempt

GateHandlers ==
    \/ /\ Len(initiated) < MaxInitiated
       /\ \E trigger \in Triggers, rChance \in ChanceDraws, rCategory \in CategoryDraws :
             /\ MaybeInitiate(trigger, rChance, rCategory, 0, 0)
             /\ attempt' = <<[trigger |-> trigger, rChance |-> rChance]>>
    \/ /\ readProactivity(proactivityJson).messagesSinceMemoryEcho < MEMORY_MIN_MESSAGES
       /\ \E messages \in PullThreads : PullChat(messages)
       /\ attempt' = NoAttempt
    \/ \E messages \in pendingChats : PullChatDone(messages, TRUE) /\ attempt' = NoAttempt
    \/ \E depth \in 0..4 : SetConversationDepth(depth) /\ attempt' = NoAttempt
    \/ \E fact \in FactInputs : AddFact(fact) /\ attempt' = NoAttempt
    \/ \E t \in GateClock :
          Advance(t) /\ attempt' = NoAttempt
          /\ UNCHANGED <<prevPair, proactivityJson, memoryJson, settingsJson, chatHistoryJson,
                         pendingChats, initiated>>

SpecGate == InitGate /\ [][GateHandlers]_vars

\* Memory echoes: conversation depth 2, facts added during the run, and as
\* many user messages after each echo as the next echo needs.
EchoClock == {StartNow + k * PROACTIVE_MIN_GAP_MS : k \in 0..2}

EchoProfiles ==
    {<<>>,
     writeProactivity([defaultProactivity EXCEPT
                          !.totalUserMessages = 3,
                          !.lastUserMessageText = "hello",
                          !.messagesSinceMemoryEcho = 3])}

InitEcho ==
    /\ TimerPathInit
    /\ settings = DEFAULT_PRIMARY_MODE
    /\ modeState.idleMs = IDLE_THRESHOLD_MS
    /\ proactivityJson \in EchoProfiles
    /\ memoryJson = <<>>
    /\ settingsJson = 2
    /\ chatHistoryJson = <<>>
    /\ pendingChats = {}
    /\ initiated = <<>>
    /\ attempt = NoAttempt

EchoHandlers ==
    \/ /\ Len(initiated) < MaxInitiated
       /\ \E trigger \in {"session-focus", "memory-added"}, rCategory, rFact \in RandomExtremes :
             MaybeInitiate(trigger, 0, rCategory, rFact, 0)
    \/ /\ readProactivity(proactivityJson).messagesSinceMemoryEcho < MEMORY_MIN_MESSAGES
       /\ \E messages \in PullThreads : PullChat(messages)
    \/ \E messages \in pendingChats : PullChatDone(messages, TRUE)
    \/ \E fact \in {"tea", "the move"} : AddFact(fact)
    \/ \E t \in EchoClock : Advance(t) /\ UNCHANGED <<prevPair, pullVars>>

NextEcho ==
    /\ EchoHandlers
    /\ UNCHANGED attempt

SpecEcho == InitEcho /\ [][NextEcho]_vars

\* The relationship score across days: user messages and attempts on three
\* consecutive days, from a file that records 10 messages on the day before.
MaxScoreMessages == 13
ScoreClock == {StartNow + k * DAY_MS : k \in 0..2}

InitScore ==
    /\ TimerPathInit
    /\ settings = DEFAULT_PRIMARY_MODE
    /\ modeState.idleMs = IDLE_THRESHOLD_MS
    /\ proactivityJson =
           writeProactivity([defaultProactivity EXCEPT
                                !.totalUserMessages = 10,
                                !.lastUserMessageText = "hello",
                                !.messagesSinceMemoryEcho = 10,
                                !.daysUsed = {getTodayKey(StartNow) - 1}])
    /\ memoryJson = <<>>
    /\ settingsJson = 4
    /\ chatHistoryJson = <<>>
    /\ pendingChats = {}
    /\ initiated = <<>>
    /\ attempt = NoAttempt

ScoreHandlers ==
    \/ /\ Len(initiated) < MaxInitiated
       /\ \E rChance, rCategory \in RandomExtremes :
             MaybeInitiate("session-start", rChance, rCategory, 0, 0)
    \/ /\ readProactivity(proactivityJson).totalUserMessages < MaxScoreMessages
       /\ \E messages \in PullThreads : PullChat(messages)
    \/ \E messages \in pendingChats, ok \in BOOLEAN : PullChatDone(messages, ok)
    \/ \E t \in ScoreClock : Advance(t) /\ UNCHANGED <<prevPair, pullVars>>

NextScore ==
    /\ ScoreHandlers
    /\ UNCHANGED attempt

SpecScore == InitScore /\ [][NextScore]_vars

\* Consecutive selections from one pool of 9 templates.
Pool9 == AMBIENT_TEMPLATES \o INVITATION_TEMPLATES
MaxSelections == 10

InitPick ==
    /\ TimerPathInit
    /\ settings = DEFAULT_PRIMARY_MODE
    /\ modeState.idleMs = IDLE_THRESHOLD_MS
    /\ PullFresh

PickHandlers ==
    /\ Len(initiated) < MaxSelections
    /\ \E r \in RandomSamples : selectTemplate(Pool9, r)

NextPick ==
    /\ PickHandlers
    /\ UNCHANGED attempt

SpecPick == InitPick /\ [][NextPick]_vars

----------------------------------------------------------------------------
(* Mode resolver: claims C1 - C6 *)

\* The rules of the resolver in their stated order.
RuleMatches(k, ms, t) ==
    CASE k = 1 -> ms.primaryMode = "idle"
      [] k = 2 -> ms.primaryMode = "serious"
      [] k = 3 -> ms.focusLocked
      [] k = 4 -> ms.lastUserSendAt > 0 /\ t - ms.lastUserSendAt < SERIOUS_AFTER_SEND_MS
      [] k = 5 -> ms.appCategory = "work"
      [] k = 6 -> ms.appCategory = "casual"
      [] k = 7 -> ms.idleMs >= IDLE_THRESHOLD_MS
      [] k = 8 -> TRUE

RuleResult(k) ==
    CASE k = 1 -> <<"idle", "primary setting: Quiet">>
      [] k = 2 -> <<"serious", "primary setting: Focus">>
      [] k = 3 -> <<"serious", "focus lock enabled">>
      [] k = 4 -> <<"serious", "recent activity">>
      [] k = 5 -> <<"serious", "work app detected">>
      [] k = 6 -> <<"active", "casual app detected">>
      [] k = 7 -> <<"idle", "system inactive">>
      [] k = 8 -> <<"active", "primary setting: Hang out">>

FirstRule(ms, t) ==
    CHOOSE k \in 1..8 : RuleMatches(k, ms, t) /\ \A j \in 1..(k - 1) : ~RuleMatches(j, ms, t)

\* C1: after every handler that evaluates the resolver, the stored (mode,
\* reason) is the result of the first rule, in the stated order, that matches
\* the primary setting, focus lock, send recency, app category and idle
\* sample of that evaluation.
C1_FirstMatchWins ==
    lastOp \in EvalOps => Pair(modeState) = RuleResult(FirstRule(modeState, now))

\* C1 witness: a tick decided by rule 7, after a send that is exactly
\* 2 minutes old (no longer recent) and with an unknown app.
C1_Witness ==
    /\ lastOp = "tick"
    /\ modeState.primaryMode = "active"
    /\ ~modeState.focusLocked
    /\ modeState.lastUserSendAt > 0
    /\ now - modeState.lastUserSendAt = SERIOUS_AFTER_SEND_MS
    /\ modeState.appCategory = "unknown"
    /\ modeState.idleMs = IDLE_THRESHOLD_MS
    /\ Pair(modeState) = <<"idle", "system inactive">>

\* C2: in every reachable state a primary setting of Quiet or Focus is the
\* effective mode.
C2_PrimaryWins ==
    /\ modeState.primaryMode = "idle" => modeState.effectiveMode = "idle"
    /\ modeState.primaryMode = "serious" => modeState.effectiveMode = "serious"

\* C2 witness: the screen is locked while the primary setting is Focus, the
\* system is idle and a casual app is in front; the mode stays Focus.
C2_Witness ==
    /\ lastOp = "lockScreen"
    /\ modeState.primaryMode = "serious"
    /\ modeState.isIdle
    /\ modeState.appCategory = "casual"
    /\ modeState.effectiveMode = "serious"

\* C3 (as claimed): whenever focus lock is on and the primary setting is
\* Hang out, the effective mode is Focus with reason "focus lock".
C3_FocusLockWins ==
    (modeState.focusLocked /\ modeState.primaryMode = "active")
        => Pair(modeState) = <<"serious", "focus lock enabled">>

\* The fields the resolver is said not to depend on, set to fixed values.
Canonical(ms) ==
    [ms EXCEPT !.effectiveMode = "active",
               !.effectiveReason = "primary setting: Hang out",
               !.activeApp = NoApp,
               !.idleMs = 0,
               !.isIdle = FALSE]

\* C4: in every reachable state and for every idle sample, the resolver
\* returns what it returns from a state that agrees on the primary setting,
\* focus lock, last-send time, app category, idle sample and clock and
\* differs in everything else; so its result is a function of those inputs.
C4_Deterministic ==
    \A idleMs \in IdleSamples :
        computeEffectiveMode(sampleIdle(modeState, idleMs), now)
            = computeEffectiveMode(sampleIdle(Canonical(modeState), idleMs), now)

\* C4 witness: the stored mode is the Quiet of a locked screen, the previous
\* sample was idle, and the resolver, evaluated now with the casual app that
\* gave Hang out before, gives Hang out again.
C4_Witness ==
    /\ lastOp = "lockScreen"
    /\ prevPair = <<"active", "casual app detected">>
    /\ Pair(modeState) = <<"idle", "screen locked">>
    /\ modeState.isIdle
    /\ computeEffectiveMode(sampleIdle(modeState, modeState.idleMs), now)
           = Result("active", "casual app detected")

C6_LockScreenForces ==
    lastOp = "lockScreen" =>
        /\ modeState.effectiveMode =
               IF modeState.primaryMode = "serious" THEN "serious" ELSE "idle"
        /\ mainWindow # "null" => sent = <<ModeUpdate(modeState)>>

\* C6 witness: the screen is locked while the effective mode is Hang out; the
\* handler leaves Quiet and has published it.
C6_Witness ==
    /\ lastOp = "lockScreen"
    /\ modeState.primaryMode = "active"
    /\ prevPair[1] = "active"
    /\ Pair(modeState) = <<"idle", "screen locked">>
    /\ sent = <<ModeUpdate(modeState)>>

----------------------------------------------------------------------------
(* Timer-path scheduler: claims C7 - C10 *)

\* The timer callback that ran last sent a proactive message.
Emitted == lastOp = "proactiveTimer" /\ sent # <<>>

\* C7: a proactive message leaves the timer path only when the window is
\* visible, primary setting and stored effective mode are Hang out, focus
\* lock is off, the user is not typing, the sampled system idle time and the
\* time since the last user activity are at least 3 minutes, and the previous
\* proactive message is at least the rate-limit window old.
C7_EmitsOnlyWhenEligible ==
    Emitted =>
        /\ mainWindow = "visible"
        /\ modeState.primaryMode = "active"
        /\ modeState.effectiveMode = "active"
        /\ ~modeState.focusLocked
        /\ ~isUserTyping
        /\ \E ms \in idleProbe : ms >= PROACTIVE_IDLE_THRESHOLD_MS
        /\ now - lastUserActivityAt >= PROACTIVE_IDLE_THRESHOLD_MS
        /\ LET n == Len(emitted)
           IN /\ n >= 1
              /\ emitted[n] = now
              /\ n >= 2 => now - emitted[n - 1] >= PROACTIVE_RATE_LIMIT_MS

\* C7 witness: a second proactive message has just been sent.
C7_Witness == Emitted /\ Len(emitted) = 2

\* C8: any two proactive messages of the timer path are at least the
\* rate-limit window apart.
C8_RateLimited ==
    \A i, j \in 1..Len(emitted) :
        i < j => emitted[j] - emitted[i] >= PROACTIVE_RATE_LIMIT_MS

\* C8 witness: two messages exactly one rate-limit window apart, with an
\* activity report and a retry in between.
C8_Witness ==
    /\ Len(emitted) = 2
    /\ emitted[2] - emitted[1] = PROACTIVE_RATE_LIMIT_MS
    /\ lastUserActivityAt > emitted[1]

\* C9: at most one proactive check timer is pending; it is the one the
\* proactiveTimer variable holds and its deadline is the one set by the most
\* recent scheduling call.
C9_OneTimer ==
    /\ Cardinality(pendingProactive) <= 1
    /\ \A tm \in pendingProactive : tm.id = proactiveTimer /\ tm.at = lastScheduled
    /\ proactiveTimer # NoTimer => \E tm \in pendingProactive : tm.id = proactiveTimer

\* C9 witness: an activity report made while the rate-limit check armed by
\* an emission was pending; only the 3-minute check is pending afterwards.
C9_Witness ==
    /\ lastOp = "activity"
    /\ Len(emitted) = 1
    /\ now = emitted[1]
    /\ pendingProactive = {[id |-> proactiveTimer, at |-> now + PROACTIVE_IDLE_THRESHOLD_MS]}

\* C10 (as claimed): a typing report leaves the recorded time of the last
\* user activity and the deadline of the pending idle timer as they were.
C10_TypingKeepsIdleClock ==
    [][lastOp' = "typing" =>
          /\ lastUserActivityAt' = lastUserActivityAt
          /\ lastScheduled' = lastScheduled]_vars

\* C10 (amended): a typing report sets the typing flag for the grace window,
\* which blocks the timer path, and it counts as user activity: the time of
\* the last user activity becomes the time of the report and the pending
\* check is replaced by one 3 minutes after the report.
C10_TypingRestartsIdleClock ==
    /\ lastOp = "typing" =>
          /\ isUserTyping
          /\ \E tm \in pendingTyping :
                tm.id = typingTimer /\ tm.at = now + PROACTIVE_TYPING_GRACE_MS
          /\ lastUserActivityAt = now
          /\ pendingProactive =
                 {[id |-> proactiveTimer, at |-> now + PROACTIVE_IDLE_THRESHOLD_MS]}
    /\ (lastOp = "proactiveTimer" /\ isUserTyping) => sent = <<>>

\* C10 witness: a typing report 50 minutes after an emission, when the idle
\* clock had long passed 3 minutes; the clock starts again from the report.
C10_Witness ==
    /\ lastOp = "typing"
    /\ Len(emitted) = 1
    /\ now = emitted[1] + PROACTIVE_RATE_LIMIT_MS
    /\ lastUserActivityAt = now
    /\ lastScheduled = now + PROACTIVE_IDLE_THRESHOLD_MS

----------------------------------------------------------------------------
(* Timer-path scheduler and error handling: claims C11 - C15 *)

\* The step is a timer callback whose eligibility predicate was false: a
\* check before the idle sample failed, or the sample it took made a later
\* check fail.
IneligibleFire ==
    /\ lastOp' = "proactiveTimer"
    /\ \/ ~canSendBeforeIdle
       \/ \E ms \in idleProbe' : ~canSendProactive(now, ms)

\* C11: a timer fire with a false eligibility predicate emits nothing, leaves
\* lastProactiveAt as it was, and leaves exactly one pending check, due
\* after the longer of the 2-minute retry interval and the remainder of the
\* rate-limit window.
C11_IneligibleReschedules ==
    [][IneligibleFire =>
          /\ sent' = <<>>
          /\ emitted' = emitted
          /\ history' = history
          /\ lastProactiveAt' = lastProactiveAt
          /\ pendingProactive' =
                {[id |-> proactiveTimer',
                  at |-> now + Max(PROACTIVE_RETRY_MS,
                                   PROACTIVE_RATE_LIMIT_MS - (now - lastProactiveAt))]}]_vars

\* C11 witness: an ineligible fire inside the rate-limit window of an earlier
\* emission; the remainder of the window is longer than the retry interval.
C11_Witness ==
    /\ lastOp = "proactiveTimer"
    /\ sent = <<>>
    /\ Len(emitted) = 1
    /\ now > emitted[1]
    /\ lastProactiveAt = emitted[1]
    /\ lastScheduled = emitted[1] + PROACTIVE_RATE_LIMIT_MS
    /\ lastScheduled - now > PROACTIVE_RETRY_MS
    /\ pendingProactive = {[id |-> proactiveTimer, at |-> lastScheduled]}

\* C12 (as claimed): when a step of a timer fire fails, no message is sent or
\* recorded as sent and a check is pending afterwards.
C12_FaultRetries ==
    lastOp \in FaultOps =>
        /\ sent = <<>>
        /\ (emitted # <<>> => emitted[Len(emitted)] # now)
        /\ \E tm \in pendingProactive : tm.id = proactiveTimer

\* C13 (as claimed): a tick whose foreground-app lookup failed leaves the app
\* name and the app category as they were before it.
C13_FailedLookupKeepsApp ==
    [][lastOp' = "tick: lookup failed" =>
          /\ modeState'.activeApp = modeState.activeApp
          /\ modeState'.appCategory = modeState.appCategory]_vars

\* C14: at most one foreground-app lookup is in flight; a lookup starts only
\* when none is in flight; a tick that starts during a lookup starts none,
\* keeps the cached app and category and stores the mode resolved from them;
\* and the guard is cleared by the end of a lookup, successful or failed.
C14_OneLookupInFlight ==
    [][/\ lookupsInFlight' <= 1
       /\ activeAppCheckInFlight' <=> lookupsInFlight' = 1
       /\ lookupsInFlight' > lookupsInFlight => ~activeAppCheckInFlight
       /\ (activeAppCheckInFlight /\ lastOp' = "tick" /\ lookupsInFlight' = lookupsInFlight) =>
             /\ modeState'.activeApp = modeState.activeApp
             /\ modeState'.appCategory = modeState.appCategory
             /\ Pair(modeState') = RuleResult(FirstRule(modeState', now))
       /\ lookupsInFlight' < lookupsInFlight => ~activeAppCheckInFlight']_vars

\* C14 witness: while a later lookup is in flight, a tick has just resolved
\* "work app detected" from the category the previous lookup cached.
C14_Witness ==
    /\ lastOp = "tick"
    /\ activeAppCheckInFlight
    /\ lookupsInFlight = 1
    /\ modeState.appCategory = "work"
    /\ modeState.effectiveReason = "work app detected"
    /\ now > StartNow

\* C15: setPrimary with a value that is no primary mode changes nothing: the
\* mode state (primary setting, effective mode and reason included), the
\* persisted settings, the proactive timer and the time of the last user
\* activity stay as they were, nothing is sent to the window, and the caller
\* gets the current mode state.
C15_InvalidPrimaryRejected ==
    [][lastOp' = "setPrimaryRejected" =>
          /\ modeState' = modeState
          /\ settings' = settings
          /\ pendingProactive' = pendingProactive
          /\ proactiveTimer' = proactiveTimer
          /\ lastUserActivityAt' = lastUserActivityAt
          /\ sent' = <<>>
          /\ ret' = <<modeState>>]_vars

\* C15 witness: a rejected call made later than the last user activity, with
\* a primary setting other than the default.
C15_Witness ==
    /\ lastOp = "setPrimaryRejected"
    /\ now > lastUserActivityAt
    /\ modeState.primaryMode = "serious"
    /\ settings = "serious"
    /\ ret = <<modeState>>

----------------------------------------------------------------------------
(* Pull-path initiative and template memory: claims C16 - C20 *)

\* The proactivity state the program works on: what readProactivity makes of
\* the file.
Proactivity == readProactivity(proactivityJson)
ProactivityAfter == readProactivity(proactivityJson')

InitiativeInRange(v) == INITIATIVE_MIN <= v /\ v <= INITIATIVE_MAX

\* C16: whatever the persisted file held at load time, and after any
\* sequence of user messages, proactive attempts, acknowledgments and ignore
\* penalties, the initiative the program reads lies in [0.05, 0.95], and so
\* does every initiative it writes.
C16_InitiativeClamped ==
    /\ InitiativeInRange(Proactivity.initiative)
    /\ [][/\ InitiativeInRange(ProactivityAfter.initiative)
          /\ proactivityJson' # proactivityJson =>
                InitiativeInRange(proactivityJson'[1].initiative[1])]_vars

\* C16 witness: a reward has met the ceiling and the state was written.
C16_Witness ==
    /\ lastOp = "ai:chat"
    /\ proactivityJson # <<>>
    /\ proactivityJson[1].initiative = <<INITIATIVE_MAX>>
    /\ Proactivity.totalUserMessages >= 1

\* C17: a user message that arrives while a proactive message is pending
\* clears pendingResponse and writes initiative min(0.95, initiative + 0.08),
\* strictly more than before unless initiative was at the ceiling.
C17_AnswerRaisesInitiative ==
    [][(lastOp' = "ai:chat" /\ Proactivity.pendingResponse) =>
          /\ ~ProactivityAfter.pendingResponse
          /\ proactivityJson'[1].initiative =
                 <<Min(INITIATIVE_MAX, Proactivity.initiative + INITIATIVE_UP)>>
          /\ Proactivity.initiative < INITIATIVE_MAX =>
                 ProactivityAfter.initiative > Proactivity.initiative]_vars

\* C17 witness: on a fresh install a message was emitted and then answered.
C17_Witness ==
    /\ lastOp = "ai:chat"
    /\ Len(initiated) = 1
    /\ ~Proactivity.pendingResponse
    /\ Proactivity.initiative = INITIATIVE_DEFAULT + INITIATIVE_UP
    /\ Proactivity.totalUserMessages = 1

\* C18: maybeInitiate called while a proactive message is pending and more
\* than 6 hours after the last penalty writes initiative
\* max(0.05, initiative - 0.05), strictly less than before unless initiative
\* was at the floor, and emits nothing.
C18_IgnoredLowersInitiative ==
    [][(/\ lastOp' = "maybeInitiate"
        /\ Proactivity.pendingResponse
        /\ Proactivity.lastIgnoredAt # NoTime
        /\ now - Proactivity.lastIgnoredAt > IGNORE_DECAY_GAP_MS) =>
          /\ proactivityJson'[1].initiative =
                 <<Max(INITIATIVE_MIN, Proactivity.initiative - INITIATIVE_DOWN)>>
          /\ Proactivity.initiative > INITIATIVE_MIN =>
                 ProactivityAfter.initiative < Proactivity.initiative
          /\ ProactivityAfter.lastIgnoredAt = now
          /\ ret' = <<Null>>
          /\ initiated' = initiated
          /\ chatHistoryJson' = chatHistoryJson]_vars

\* C18 witness: a second penalty, more than 6 hours after the first one.
C18_Witness ==
    /\ lastOp = "maybeInitiate"
    /\ Proactivity.pendingResponse
    /\ Len(initiated) = 1
    /\ initiated[1].at = StartNow
    /\ Proactivity.lastIgnoredAt = StartNow + IGNORE_DECAY_GAP_MS + PROACTIVE_MIN_GAP_MS
    /\ Proactivity.initiative = INITIATIVE_DEFAULT - 2 * INITIATIVE_DOWN

\* The template ids of the messages returned so far, oldest first.
InitiatedIds == [i \in 1..Len(initiated) |-> initiated[i].templateId]

\* C19: from the default state, after any sequence of emissions and user
\* messages, recentTemplateIds holds at most 8 ids: the ids of the latest
\* emissions, in emission order.
C19_RecentTemplatesAreLatest ==
    LET n == Len(InitiatedIds)
        recent == Proactivity.recentTemplateIds
    IN /\ Len(recent) <= RECENT_TEMPLATES_KEPT
       /\ Len(recent) = Min(n, RECENT_TEMPLATES_KEPT)
       /\ \A k \in 1..Len(recent) : recent[k] = InitiatedIds[n - Len(recent) + k]

\* C19 witness: a ninth emission has pushed the first id out of the list.
C19_Witness ==
    /\ Len(initiated) = RECENT_TEMPLATES_KEPT + 1
    /\ Len(Proactivity.recentTemplateIds) = RECENT_TEMPLATES_KEPT
    /\ Proactivity.recentTemplateIds[1] = initiated[2].templateId
    /\ Proactivity.recentTemplateIds[RECENT_TEMPLATES_KEPT] =
           initiated[RECENT_TEMPLATES_KEPT + 1].templateId

\* C20: in consecutive selections from one pool of 9 templates, each recorded
\* in recentTemplateIds, no id occurs twice among any 8 consecutive
\* selections.
C20_NoRepeatInWindow ==
    \A i, j \in 1..Len(initiated) :
        (i < j /\ j - i < RECENT_TEMPLATES_KEPT) =>
            initiated[i].templateId # initiated[j].templateId

\* C20 witness: the tenth selection repeats the first, outside every window
\* of 8 that holds the first.
C20_Witness ==
    /\ lastOp = "pickTemplate"
    /\ Len(initiated) = RECENT_TEMPLATES_KEPT + 2
    /\ initiated[RECENT_TEMPLATES_KEPT + 2].templateId = initiated[1].templateId

----------------------------------------------------------------------------
(* Pull-path category gates: claims C21 - C23 *)

\* The categories each conversation depth allows.
AllowedAtDepth(depth) ==
    CASE depth = 1 -> {"ambient"}
      [] depth = 2 -> {"ambient", "memory"}
      [] depth = 3 -> {"ambient", "memory", "emotional"}
      [] depth = 4 -> {"ambient", "memory", "emotional", "invitation"}

\* The unlock condition of a category on a proactivity state and the facts.
Unlocked(category, state, facts) ==
    CASE category = "ambient" -> TRUE
      [] category = "memory" ->
            Len(facts) >= 1 /\ state.messagesSinceMemoryEcho >= 3
      [] category = "emotional" ->
            /\ detectEmotionCue(state.lastUserMessageText) # Null
            /\ getRelationshipScore(state) >= EMOTIONAL_MIN_SCORE
      [] category = "invitation" ->
            getRelationshipScore(state) >= INVITATION_MIN_SCORE

\* This step is a maybeInitiate call that returns a message.
Emits == Len(initiated') = Len(initiated) + 1
EmittedNow == initiated'[Len(initiated')]

\* C21: every message maybeInitiate emits has a category that the current
\* conversation depth allows and whose unlock condition holds on the state
\* and the facts read at emission time.
C21_EmittedCategoryUnlocked ==
    [][Emits =>
          /\ EmittedNow.category \in AllowedAtDepth(settingsJson)
          /\ Unlocked(EmittedNow.category, Proactivity, memoryJson)]_vars

\* C21 witness: a memory echo at depth 2 or more, answered, and then an
\* invitation at depth 4 once the relationship score has passed 0.45.
C21_Witness ==
    /\ Len(initiated) = 2
    /\ initiated[1].category = "memory"
    /\ initiated[2].category = "invitation"
    /\ settingsJson = 4

\* The richness order of the categories.
Richness(category) ==
    CASE category = "ambient" -> 1
      [] category = "memory" -> 2
      [] category = "emotional" -> 3
      [] category = "invitation" -> 4

\* C22: a message emitted by an eligible attempt whose probability draw
\* succeeded has the richest category among those that are allowed by the
\* conversation depth and unlocked.
C22_RichestCategory ==
    [][Emits =>
          \A other \in AllowedAtDepth(settingsJson) :
              Unlocked(other, Proactivity, memoryJson) =>
                  Richness(other) <= Richness(EmittedNow.category)]_vars

\* The gates ahead of the probability draw: no message pending and the
\* minimum gap since the last proactive message over.
GatesPassed ==
    /\ ~Proactivity.pendingResponse
    /\ \/ Proactivity.lastProactiveAt = NoTime
       \/ now - Proactivity.lastProactiveAt >= PROACTIVE_MIN_GAP_MS

\* C23: the chance lies in [0.1, 0.85]; a maybeInitiate call that passes its
\* gates and draws above the chance returns no message and leaves the
\* persisted proactivity state and the chat history as they were.
C23_FailedDrawChangesNothing ==
    /\ \A trigger \in Triggers :
           /\ getProactivityChance(trigger, Proactivity) >= RandomDen \div 10
           /\ getProactivityChance(trigger, Proactivity) <= (85 * RandomDen) \div 100
    /\ [][(/\ lastOp' = "maybeInitiate"
           /\ attempt' # NoAttempt
           /\ GatesPassed
           /\ attempt'[1].rChance > getProactivityChance(attempt'[1].trigger, Proactivity)) =>
             /\ ret' = <<Null>>
             /\ proactivityJson' = proactivityJson
             /\ chatHistoryJson' = chatHistoryJson
             /\ initiated' = initiated]_vars

\* C23 witness: a draw of 0.25 has failed on a state that passes the gates
\* and whose chance is below 0.25; nothing was emitted before or by it.
C23_Witness ==
    /\ lastOp = "maybeInitiate"
    /\ attempt # NoAttempt
    /\ attempt[1].rChance = 10000
    /\ getProactivityChance(attempt[1].trigger, Proactivity) < 10000
    /\ GatesPassed
    /\ ret = <<Null>>
    /\ initiated = <<>>

----------------------------------------------------------------------------
(* Pull-path acknowledgment: claims C24, C25 and C29 *)

\* C24: in every interleaving of chat requests, their network waits and
\* maybeInitiate calls, each chat request adds exactly one to
\* totalUserMessages and nothing else changes the count; pendingResponse is
\* true after an emission, stays true until the next chat request and is
\* false after it.
C24_NoLostUpdate ==
    [][/\ lastOp' = "ai:chat" =>
             /\ ProactivityAfter.totalUserMessages = Proactivity.totalUserMessages + 1
             /\ ~ProactivityAfter.pendingResponse
       /\ lastOp' # "ai:chat" =>
             /\ ProactivityAfter.totalUserMessages = Proactivity.totalUserMessages
             /\ Proactivity.pendingResponse => ProactivityAfter.pendingResponse
       /\ Emits => ProactivityAfter.pendingResponse]_vars

\* C24 witness: a message was emitted while a chat request awaited its
\* reply; the reply has arrived and the message is still pending.
C24_Witness ==
    /\ lastOp = "ai:chat done"
    /\ initiated # <<>>
    /\ initiated[Len(initiated)].userMessages = Proactivity.totalUserMessages
    /\ Proactivity.totalUserMessages >= 1
    /\ Proactivity.lastUserMessageAt = Proactivity.lastProactiveAt
    /\ Proactivity.pendingResponse

\* C25: between any two messages maybeInitiate emits, at least one user
\* message is recorded.
C25_NoFollowUp ==
    \A i \in 1..Len(initiated) - 1 :
        initiated[i + 1].userMessages > initiated[i].userMessages

\* C25 witness: a message was ignored for more than 6 hours and penalised,
\* then answered, and only then followed by the next message.
C25_Witness ==
    /\ Len(initiated) = 2
    /\ initiated[2].at - initiated[1].at > IGNORE_DECAY_GAP_MS
    /\ initiated[2].userMessages = initiated[1].userMessages + 1
    /\ Proactivity.initiative = INITIATIVE_DEFAULT - INITIATIVE_DOWN + INITIATIVE_UP

\* C29: a maybeInitiate call on an unanswered message at most 6 hours after
\* the previous penalty returns no message and leaves proactivity.json as it
\* was.
C29_OnePenaltyPerWindow ==
    [][(/\ lastOp' = "maybeInitiate"
        /\ Proactivity.pendingResponse
        /\ Proactivity.lastIgnoredAt # NoTime
        /\ now - Proactivity.lastIgnoredAt <= IGNORE_DECAY_GAP_MS) =>
          /\ proactivityJson' = proactivityJson
          /\ ret' = <<Null>>
          /\ initiated' = initiated
          /\ chatHistoryJson' = chatHistoryJson]_vars

\* C29 witness: an attempt exactly 6 hours after the penalty, which it has
\* not repeated.
C29_Witness ==
    /\ lastOp = "maybeInitiate"
    /\ Proactivity.pendingResponse
    /\ Proactivity.lastIgnoredAt # NoTime
    /\ now - Proactivity.lastIgnoredAt = IGNORE_DECAY_GAP_MS
    /\ ret = <<Null>>

----------------------------------------------------------------------------
(* Pull-path memory echoes: claim C30 *)

\* The positions of the memory-category messages emitted so far.
MemoryEchoes == {i \in 1..Len(initiated) : initiated[i].category = "memory"}

\* C30: between any two memory-category emissions at least 3 user messages
\* are recorded; a memory-category message is emitted only when a fact is
\* stored, and it carries a stored fact; when at least two facts are stored,
\* a memory echo does not carry the fact of the memory echo before it.
C30_MemoryEchoSpacing ==
    /\ \A i, j \in MemoryEchoes :
           i < j => initiated[j].userMessages - initiated[i].userMessages >= MEMORY_MIN_MESSAGES
    /\ [][(Emits /\ EmittedNow.category = "memory") =>
             /\ Len(memoryJson) >= 1
             /\ includes(memoryJson, EmittedNow.fact)
             /\ (Len(memoryJson) >= 2 /\ MemoryEchoes # {}) =>
                    EmittedNow.fact #
                        initiated[CHOOSE i \in MemoryEchoes :
                                      \A j \in MemoryEchoes : j <= i].fact]_vars

\* C30 witness: two memory echoes in a row with two facts stored, three
\* user messages apart, carrying different facts.
C30_Witness ==
    /\ Len(initiated) = 2
    /\ MemoryEchoes = {1, 2}
    /\ Len(memoryJson) = 2
    /\ initiated[2].userMessages = initiated[1].userMessages + MEMORY_MIN_MESSAGES
    /\ initiated[2].fact # initiated[1].fact
    /\ Proactivity.lastMemoryEchoFact = initiated[2].fact

----------------------------------------------------------------------------
(* One-shot screenshots: claims C26 and C27 *)

\* C26: the screenshot captured by a successful screen:look is attached to
\* the last user message of the next chat request.
C26_ScreenshotAttached ==
    [][(lastOp' = "chat" /\ pendingScreenshot # NoScreenshot) =>
          attached' = Append(attached, pendingScreenshot)]_vars

\* C27: no screenshot is put into two chat requests; every chat request and
\* every screen:discard leaves no screenshot pending; screen:look starts a
\* capture only while the stored effective mode is Hang out.
C27_ScreenshotUsedOnce ==
    /\ \A i, j \in 1..Len(attached) : i # j => attached[i] # attached[j]
    /\ [][/\ lastOp' \in {"chat", "screen:discard"} => pendingScreenshot' = NoScreenshot
          /\ captures' # captures => modeState.effectiveMode = "active"]_vars

\* C27 witness: a screenshot was captured in Hang out, a chat request has
\* since taken it and turned the mode to Focus, and a further screen:look
\* has been refused.
C27_Witness ==
    /\ lastOp = "screen:look"
    /\ ret = <<[ok |-> FALSE, reason |-> "not_available"]>>
    /\ captures = 1
    /\ capturing = {}
    /\ pendingScreenshot = NoScreenshot
    /\ modeState.effectiveReason = "recent activity"
    /\ chatInFlight # {}

----------------------------------------------------------------------------
(* Timer path and pull path together: claim C28 *)

\* The shorter of the two rate-limit windows.
SharedWindow == Min(PROACTIVE_RATE_LIMIT_MS, PROACTIVE_MIN_GAP_MS)

\* C28: a message of the timer path and a message of the pull path are never
\* closer together than the rate-limit window, and the pull path emits only
\* while the effective mode is Hang out.
C28_PathsShareRateLimit ==
    /\ \A i \in 1..Len(emitted), j \in 1..Len(initiated) :
           \/ emitted[i] - initiated[j].at >= SharedWindow
           \/ initiated[j].at - emitted[i] >= SharedWindow
    /\ [][Emits => modeState.effectiveMode = "active"]_vars

----------------------------------------------------------------------------
(* Typing grace window: claim C31 *)

\* The deadline of the grace window the latest typing report opened.
GraceDeadlines == {tm.at : tm \in pendingTyping}

\* C31: the typing flag is set by a typing report and stays set exactly
\* while that report's grace timer is pending; the only pending grace timer
\* is the one of the most recent typing report, due 3 seconds after it, so
\* the flag is cleared only by that timer, never earlier than 3 seconds
\* after the most recent report, and at most one grace timer is pending.
C31_TypingGrace ==
    [][/\ Cardinality(pendingTyping') <= 1
       /\ isUserTyping' <=> pendingTyping' # {}
       /\ lastOp' = "typing" =>
              /\ isUserTyping'
              /\ pendingTyping' = {[id |-> typingTimer',
                                    at |-> now + PROACTIVE_TYPING_GRACE_MS]}
       /\ isUserTyping /\ ~isUserTyping' =>
              /\ lastOp' = "typingTimer"
              /\ \A at \in GraceDeadlines : now >= at
       /\ lastOp' \notin {"typing", "typingTimer"} =>
              UNCHANGED <<isUserTyping, pendingTyping>>]_vars

\* A grace window opened after startup is still running, with the flag set,
\* at a time when a window opened at startup would be over.
C31_Witness ==
    /\ isUserTyping
    /\ lastOp = "advance"
    /\ \E tm \in pendingTyping :
          /\ tm.at > StartNow + PROACTIVE_TYPING_GRACE_MS
          /\ tm.at < StartNow + 2 * PROACTIVE_TYPING_GRACE_MS
          /\ now < tm.at
          /\ now >= StartNow + PROACTIVE_TYPING_GRACE_MS

----------------------------------------------------------------------------
(* Eventual emission: claim C32 *)

\* Nothing stands in the way of a proactive message: the window is visible,
\* primary setting and stored effective mode are Hang out, focus lock is
\* off, no activity or typing report has just arrived and the timer
\* callback, if it sampled the system idle time, found it at the threshold.
Quiet ==
    /\ mainWindow = "visible"
    /\ modeState.primaryMode = "active"
    /\ modeState.effectiveMode = "active"
    /\ ~modeState.focusLocked
    /\ lastOp \notin {"activity", "typing"}
    /\ \A idleMs \in idleProbe : idleMs >= PROACTIVE_IDLE_THRESHOLD_MS

EmittedSince(t) == \E i \in DOMAIN emitted : emitted[i] >= t

CheckPending == \E tm \in pendingProactive : tm.id = proactiveTimer

----------------------------------------------------------------------------
(* Proactive messages and the foreground app: claim C33 *)

\* What computeEffectiveMode returns for the stored signals and an idle
\* sample of idleMs.
Resolved(idleMs) == computeEffectiveMode(sampleIdle(modeState, idleMs), now)

\* The stored effective mode is what the resolver returns for the idle
\* time that handler sampled.
StoredIsResolved ==
    \A idleMs \in idleProbe : modeState.effectiveMode = Resolved(idleMs).mode

\* C33: the proactive idle threshold lies above the mode idle threshold; with
\* the system idle for at least the proactive threshold the resolver
\* returns Hang out only for a Casual foreground app; so a timer fire that
\* emits while the stored effective mode is the resolver's result for the
\* current signals finds a Casual app, not an Unknown or Work app.
C33_EmitsOnlyWithCasualApp ==
    /\ PROACTIVE_IDLE_THRESHOLD_MS > IDLE_THRESHOLD_MS
    /\ \A idleMs \in IdleSamples :
          idleMs >= PROACTIVE_IDLE_THRESHOLD_MS /\ Resolved(idleMs).mode = "active"
              => modeState.appCategory = "casual"
    /\ Emitted /\ StoredIsResolved => modeState.appCategory = "casual"

\* A message is emitted with a Casual app in the foreground and the stored
\* mode up to date.
C33_Witness ==
    /\ Emitted
    /\ StoredIsResolved
    /\ modeState.appCategory = "casual"
    /\ modeState.effectiveReason = "casual app detected"

----------------------------------------------------------------------------
(* Lock screen and the next tick: claim C37 *)

\* The handlers in which runModeLoop completes.
TickOps == {"tick", "tick: lookup failed"}

ScreenLocked == <<"idle", "screen locked">>

\* C37: every completed arbitration tick, whether its foreground-app lookup
\* was started before or after a lock-screen event, leaves the stored
\* (mode, reason) equal to the resolver's result for the stored signals,
\* which is never "screen locked".
C37_LockScreenNotSticky ==
    [][lastOp' \in TickOps =>
          LET next == computeEffectiveMode(modeState', now')
          IN /\ Pair(modeState') = <<next.mode, next.reason>>
             /\ Pair(modeState') # ScreenLocked]_vars

\* With primary Hang out, a tick whose lookup was in flight replaces Quiet
\* "screen locked" by Hang out.
C37_Witness ==
    /\ prevPair = ScreenLocked
    /\ lastOp = "tick"
    /\ ~activeAppCheckInFlight
    /\ modeState.primaryMode = "active"
    /\ modeState.effectiveMode = "active"

----------------------------------------------------------------------------
(* Chat history under concurrent writers: claim C38 *)

\* maybeInitiate has just returned a message, which it appended to the
\* persisted history, while a chat request was awaiting its reply.
EmittedDuringChat ==
    /\ lastOp = "maybeInitiate"
    /\ ret # <<Null>>
    /\ pendingChats # {}

Contains(seq, x) == \E i \in DOMAIN seq : seq[i] = x

\* C38: when a chat request completes right after a proactive message was
\* emitted during its wait, the persisted history still contains that
\* message.
C38_ProactiveMessageKept ==
    [][EmittedDuringChat /\ lastOp' = "ai:chat done" =>
          Contains(chatHistoryJson', chatHistoryJson[Len(chatHistoryJson)])]_vars

----------------------------------------------------------------------------
(* First penalty after an emission: claim C34 *)

\* The message emitted last is unanswered and has cost nothing yet.
Unpenalised ==
    /\ Proactivity.pendingResponse
    /\ Proactivity.lastIgnoredAt = NoTime

\* C34: an emission leaves the message pending with no penalty time
\* recorded, and the first maybeInitiate call that finds it so, however
\* soon after the emission, lowers initiative, records the penalty time and
\* returns no message.
C34_FirstAttemptPenalised ==
    [][/\ lastOp' = "maybeInitiate" /\ ret' # <<Null>> =>
              /\ ProactivityAfter.pendingResponse
              /\ ProactivityAfter.lastIgnoredAt = NoTime
              /\ ProactivityAfter.lastProactiveAt = now
       /\ lastOp' = "maybeInitiate" /\ Unpenalised =>
              /\ ProactivityAfter.initiative < Proactivity.initiative
              /\ ProactivityAfter.lastIgnoredAt = now
              /\ ret' = <<Null>>]_vars

\* The second message is penalised 0 ms after its emission, 2 minutes after
\* the penalty for the first one.
C34_Witness ==
    /\ lastOp = "maybeInitiate"
    /\ ret = <<Null>>
    /\ Len(initiated) = 2
    /\ initiated[2].at = now
    /\ initiated[1].at = now - PROACTIVE_MIN_GAP_MS
    /\ Proactivity.lastIgnoredAt = now
    /\ Proactivity.initiative = INITIATIVE_DEFAULT - 2 * INITIATIVE_DOWN + INITIATIVE_UP

----------------------------------------------------------------------------
(* What changes initiative: claim C35 *)

\* maybeInitiate has just refused because the last message is too recent.
RateLimitedAttempt ==
    /\ lastOp = "maybeInitiate"
    /\ ret = <<Null>>
    /\ ~Proactivity.pendingResponse
    /\ Proactivity.lastProactiveAt # NoTime
    /\ now - Proactivity.lastProactiveAt < PROACTIVE_MIN_GAP_MS

\* C35: a step that starts with no proactive message pending leaves
\* initiative as it was, whether it is a user message, an emission, a failed
\* draw, a rate-limited attempt or any other handler.
C35_InitiativeFrame ==
    [][~Proactivity.pendingResponse =>
          ProactivityAfter.initiative = Proactivity.initiative]_vars

\* An answered message has raised initiative, and a rate-limited attempt and
\* a second user message have left it there.
C35_Witness ==
    /\ RateLimitedAttempt
    /\ Proactivity.totalUserMessages = 2
    /\ Len(initiated) = 1
    /\ Proactivity.initiative = INITIATIVE_DEFAULT + INITIATIVE_UP

----------------------------------------------------------------------------
(* Relationship score: claim C36 *)

RelationshipScore == getRelationshipScore(Proactivity)
RelationshipScoreAfter == getRelationshipScore(ProactivityAfter)

\* C36: the relationship score lies in [0, 1] (0..240 in 240ths) and no
\* step lowers it: totalUserMessages never shrinks and daysUsed never loses
\* a day, so the score thresholds of the emotional and the invitation
\* category, once met, stay met.
C36_ScoreNeverDecreases ==
    /\ RelationshipScore \in 0..240
    /\ [][/\ RelationshipScoreAfter \in 0..240
          /\ RelationshipScoreAfter >= RelationshipScore
          /\ ProactivityAfter.totalUserMessages >= Proactivity.totalUserMessages
          /\ Proactivity.daysUsed \subseteq ProactivityAfter.daysUsed
          /\ \A threshold \in {EMOTIONAL_MIN_SCORE, INVITATION_MIN_SCORE} :
                RelationshipScore >= threshold => RelationshipScoreAfter >= threshold]_vars

\* Messages on three days have taken the score past both thresholds, and
\* maybeInitiate has emitted since.
C36_Witness ==
    /\ RelationshipScore >= INVITATION_MIN_SCORE
    /\ Cardinality(Proactivity.daysUsed) = 4
    /\ Proactivity.totalUserMessages = MaxScoreMessages
    /\ lastOp = "maybeInitiate"
    /\ ret # <<Null>>

====
